---- MODULE Spec2Model ----
(***************************************************************************)
(* A model of the Alethe proof checker's core:                             *)
(*   - the hash-consing term pool (carcara/src/ast/pool.rs),               *)
(*   - the transitivity rules and their elaborator                         *)
(*     (alethe-proof-checker/src/checker/rules/transitivity.rs).           *)
(*                                                                         *)
(* An Rc<Term> is an address: the index of its allocation in pool.heap.    *)
(* A Term is a record whose children are addresses, so that the derived    *)
(* structural equality of Term compares children by identity, as the       *)
(* pool's Rc does.                                                         *)
(***************************************************************************)
EXTENDS Integers, Sequences, FiniteSets, TLC

VARIABLES
    pool,      \* the TermPool
    handed,    \* what add and add_all returned to the caller: (term, reference)
    pstatus,   \* "ok", or "panicked" once a call on the pool panicked
    answers,   \* what free_vars returned to the caller: (reference, set)
    work,      \* the workload: which shapes of the universe the caller adds,
               \* or the one term the caller adds
    step,      \* the proof step under check, as parsed
    pc,        \* how far the driver is with the step
    result,    \* what the rule returned for the step
    elab,      \* what the elaborator returned for the step
    recheck,   \* what the rule returned for the elaborated step
    iter       \* the ScheduleIter, with the proof it borrows and what it returned

vars == <<pool, handed, pstatus, answers, work, step, pc, result, elab, recheck,
          iter>>

poolVars == <<handed, pstatus, answers, work>>

proofVars == <<step, pc, result, elab, recheck>>

(***************************************************************************)
(* Bounds of the model.                                                    *)
(***************************************************************************)
\* The pool takes no further call once it holds this many allocations.
MaxPoolTerms == 10

\* The longest premise list of a step.
MaxPremises == 3

\* The longest clause of a step whose literals may have any form.
MaxLiterals == 3

\* The largest number of premises of a trans step whose premises may have any
\* form.
MaxShapePremises == 2

\* The largest number of arguments of an operator or an application, and of
\* bindings of a binder, of a term handed to add.
MaxArgs == 2

(***************************************************************************)
(* Terms and sorts.                                                        *)
(***************************************************************************)
\* A Sort value: s is the variant (Bool, Int, Real, String, Array, Function,
\* Atom), id the name of an atom sort, args the sort terms it carries.
MkSort(s, id, args) == [s |-> s, id |-> id, args |-> args]

SortBool == MkSort("Bool", "", <<>>)

SortInt == MkSort("Int", "", <<>>)

SortReal == MkSort("Real", "", <<>>)

SortString == MkSort("String", "", <<>>)

\* The value a panicking computation leaves behind; never read.
NoSort == MkSort("none", "", <<>>)

\* A Term value.  kind is the variant; op is the operator of an Op, the
\* quantifier of a Quant, the identifier variant of a Var, the sort variant of
\* a Sort; name is a literal's value, a variable's name, an atom sort's name;
\* args are the child references (Var: its sort term; App: the head, then the
\* arguments; binders: the body); bindings are the (name, reference) pairs of
\* a binder.
MkTerm(kind, op, name, args, bindings) ==
    [kind |-> kind, op |-> op, name |-> name, args |-> args, bindings |-> bindings]

\* Term::Sort(sort)
SortTerm(sort) == MkTerm("Sort", sort.s, sort.id, sort.args, <<>>)

\* Term::from((name, sort)): the variable term of a binding
VarTerm(name, sort) == MkTerm("Var", "Simple", name, <<sort>>, <<>>)

\* A slip: as_sort takes every term for a sort term.
IsSortTerm_any(t) == TRUE

\* Term::as_sort: Some(sort) for a sort term, None otherwise
IsSortTerm(t) == t.kind = "Sort"

as_sort(t) == MkSort(t.op, t.name, t.args)

(***************************************************************************)
(* The term pool.                                                          *)
(***************************************************************************)
\* A slip: the occupied entry is not looked up, every call allocates and stores.
add_term_to_map_realloc(p, term) ==
    [pool |-> [p EXCEPT !.heap = Append(@, term),
                        !.terms = (term :> (Len(p.heap) + 1)) @@ @],
     ref |-> Len(p.heap) + 1]

\* Entry::Occupied returns the stored reference; Entry::Vacant allocates a
\* new Rc holding the term and stores it under the term.
add_term_to_map(p, term) ==
    IF term \in DOMAIN p.terms
    THEN [pool |-> p, ref |-> p.terms[term]]
    ELSE LET r == Len(p.heap) + 1
         IN  [pool |-> [p EXCEPT !.heap = Append(@, term),
                                 !.terms = (term :> r) @@ @],
              ref |-> r]

\* The one value of a singleton set.  Only({e(x) : x \in {v}}) is e(v) with v
\* computed once.
Only(S) == CHOOSE v \in S : TRUE

RECURSIVE compute_sort(_, _)
RECURSIVE add(_, _)
RECURSIVE any_real(_, _, _)

\* The result of a sort computation: the pool it leaves, the sort, and whether
\* it returned (ok) or panicked.
SortDone(p, s) == [pool |-> p, sort |-> s, ok |-> TRUE]

SortPanic(p) == [pool |-> p, sort |-> NoSort, ok |-> FALSE]

\* A slip: only the first argument is looked at.
any_real_first(p, args, i) ==
    IF Len(args) = 0
    THEN [pool |-> p, val |-> FALSE, ok |-> TRUE]
    ELSE Only({ [pool |-> c.pool, val |-> c.ok /\ c.sort = SortReal, ok |-> c.ok]
                : c \in {compute_sort(p, args[1])} })

\* args.iter().any(|a| *self.compute_sort(a) == Sort::Real), from argument i on
any_real(p, args, i) ==
    IF i > Len(args)
    THEN [pool |-> p, val |-> FALSE, ok |-> TRUE]
    ELSE Only({ IF ~c.ok THEN [pool |-> c.pool, val |-> FALSE, ok |-> FALSE]
                ELSE IF c.sort = SortReal
                THEN [pool |-> c.pool, val |-> TRUE, ok |-> TRUE]
                ELSE any_real(c.pool, args, i + 1)
                : c \in {compute_sort(p, args[i])} })

\* The sort of an operator application (the Term::Op arm of compute_sort).
op_sort(p, t) ==
    CASE t.op \in {"Not", "Implies", "And", "Or", "Xor", "Equals", "Distinct",
                   "LessThan", "GreaterThan", "LessEq", "GreaterEq", "IsInt"} ->
           SortDone(p, SortBool)
      [] t.op = "Ite" ->
           IF Len(t.args) < 2 THEN SortPanic(p) ELSE compute_sort(p, t.args[2])
      [] t.op \in {"Add", "Sub", "Mult"} ->
           Only({ IF ~a.ok THEN SortPanic(a.pool)
                  ELSE SortDone(a.pool, IF a.val THEN SortReal ELSE SortInt)
                  : a \in {any_real(p, t.args, 1)} })
      [] t.op \in {"RealDiv", "ToReal"} -> SortDone(p, SortReal)
      [] t.op \in {"IntDiv", "Mod", "Abs", "ToInt"} -> SortDone(p, SortInt)
      [] t.op = "Select" ->
           IF Len(t.args) < 1 THEN SortPanic(p)
           ELSE Only({ IF ~c.ok THEN c
                       ELSE IF c.sort.s = "Array" /\ IsSortTerm(c.pool.heap[c.sort.args[2]])
                       THEN SortDone(c.pool, as_sort(c.pool.heap[c.sort.args[2]]))
                       ELSE SortPanic(c.pool)
                       : c \in {compute_sort(p, t.args[1])} })
      [] t.op = "Store" ->
           IF Len(t.args) < 1 THEN SortPanic(p) ELSE compute_sort(p, t.args[1])
      [] OTHER -> SortPanic(p)

\* The match of compute_sort: the sort of the term at r, not yet cached.
sort_of_term(p, r, t) ==
    CASE t.kind = "Integer" -> SortDone(p, SortInt)
      [] t.kind = "Real" -> SortDone(p, SortReal)
      [] t.kind = "String" -> SortDone(p, SortString)
      [] t.kind = "Var" ->
           IF IsSortTerm(p.heap[t.args[1]])
           THEN SortDone(p, as_sort(p.heap[t.args[1]])) ELSE SortPanic(p)
      [] t.kind = "Op" -> op_sort(p, t)
      [] t.kind = "App" ->
           Only({ IF ~c.ok THEN c
                  ELSE IF /\ c.sort.s = "Function"
                          /\ Len(c.sort.args) > 0
                          /\ IsSortTerm(c.pool.heap[c.sort.args[Len(c.sort.args)]])
                  THEN SortDone(c.pool, as_sort(c.pool.heap[c.sort.args[Len(c.sort.args)]]))
                  ELSE SortPanic(c.pool)
                  : c \in {compute_sort(p, t.args[1])} })
      [] t.kind = "Sort" -> SortDone(p, as_sort(t))
      [] t.kind = "Quant" -> SortDone(p, SortBool)
      [] t.kind = "Choice" ->
           IF IsSortTerm(p.heap[t.bindings[1][2]])
           THEN SortDone(p, as_sort(p.heap[t.bindings[1][2]])) ELSE SortPanic(p)
      [] t.kind = "Let" -> compute_sort(p, t.args[1])
      [] t.kind = "Lambda" ->
           Only({ IF ~c.ok THEN c
                  ELSE Only({ IF ~a.ok THEN SortPanic(a.pool)
                              ELSE SortDone(a.pool,
                                     MkSort("Function", "",
                                       Append([i \in 1..Len(t.bindings) |-> t.bindings[i][2]],
                                              a.ref)))
                              : a \in {add(c.pool, SortTerm(c.sort))} })
                  : c \in {compute_sort(p, t.args[1])} })

\* A slip: the sort is computed and returned but not stored.
compute_sort_uncached(p, r) ==
    IF r \in DOMAIN p.sorts_cache
    THEN SortDone(p, p.sorts_cache[r])
    ELSE sort_of_term(p, r, p.heap[r])

\* TermPool::compute_sort
compute_sort(p, r) ==
    IF r \in DOMAIN p.sorts_cache
    THEN SortDone(p, p.sorts_cache[r])
    ELSE Only({ IF ~res.ok THEN res
                ELSE SortDone([res.pool EXCEPT !.sorts_cache = (r :> res.sort) @@ @],
                              res.sort)
                : res \in {sort_of_term(p, r, p.heap[r])} })

\* TermPool::add
add(p, term) ==
    Only({ Only({ [pool |-> c.pool, ref |-> m.ref, ok |-> c.ok]
                  : c \in {compute_sort(m.pool, m.ref)} })
           : m \in {add_term_to_map(p, term)} })

RECURSIVE add_all_from(_, _, _, _)
\* the map of TermPool::add_all, from element i on; refs are those collected
add_all_from(p, terms, i, refs) ==
    IF i > Len(terms) THEN [pool |-> p, refs |-> refs, ok |-> TRUE]
    ELSE Only({ IF ~a.ok THEN [pool |-> a.pool, refs |-> refs, ok |-> FALSE]
                ELSE add_all_from(a.pool, terms, i + 1, Append(refs, a.ref))
                : a \in {add(p, terms[i])} })

\* TermPool::add_all
add_all(p, terms) == add_all_from(p, terms, 1, <<>>)

\* A slip: the sorts of the three initial terms are not put in the cache.
new_without_sorts ==
    LET empty == [heap |-> <<>>, terms |-> <<>>, free_vars_cache |-> <<>>,
                  sorts_cache |-> <<>>, bool_true |-> 0, bool_false |-> 0]
        s == add_term_to_map(empty, SortTerm(SortBool))
        t == add_term_to_map(s.pool, VarTerm("true", s.ref))
        f == add_term_to_map(t.pool, VarTerm("false", s.ref))
    IN  [f.pool EXCEPT !.bool_true = t.ref, !.bool_false = f.ref]

\* TermPool::new
new ==
    LET empty == [heap |-> <<>>, terms |-> <<>>, free_vars_cache |-> <<>>,
                  sorts_cache |-> <<>>, bool_true |-> 0, bool_false |-> 0]
        s == add_term_to_map(empty, SortTerm(SortBool))
        t == add_term_to_map(s.pool, VarTerm("true", s.ref))
        f == add_term_to_map(t.pool, VarTerm("false", s.ref))
    IN  [f.pool EXCEPT !.sorts_cache = (f.ref :> SortBool) @@ (t.ref :> SortBool)
                                         @@ (s.ref :> SortBool) @@ @,
                       !.bool_true = t.ref,
                       !.bool_false = f.ref]

\* TermPool::sort: indexing the cache panics on a term that has no entry
has_sort(p, r) == r \in DOMAIN p.sorts_cache

sort(p, r) == p.sorts_cache[r]

RECURSIVE free_vars(_, _)
RECURSIVE fv_extend(_, _, _, _)
RECURSIVE fv_remove_bound(_, _, _, _)
RECURSIVE fv_remove_let(_, _, _, _)

\* The result of a free-variable computation.
FvDone(p, set) == [pool |-> p, set |-> set, ok |-> TRUE]

FvPanic(p) == [pool |-> p, set |-> {}, ok |-> FALSE]

\* for a in args { set.extend(self.free_vars(a)) }, from argument i on
fv_extend(p, args, i, set) ==
    IF i > Len(args) THEN FvDone(p, set)
    ELSE Only({ IF ~f.ok THEN f
                ELSE fv_extend(f.pool, args, i + 1, set \cup f.set)
                : f \in {free_vars(p, args[i])} })

\* A slip: every variable of a bound name is removed, whatever its sort.
fv_remove_bound_by_name(p, bindings, i, vs) ==
    FvDone(p, {v \in vs : \A j \in 1..Len(bindings) : p.heap[v].name # bindings[j][1]})

\* for bound_var in bindings { vars.remove(&self.add(bound_var.into())) }
fv_remove_bound(p, bindings, i, vs) ==
    IF i > Len(bindings) THEN FvDone(p, vs)
    ELSE Only({ IF ~a.ok THEN FvPanic(a.pool)
                ELSE fv_remove_bound(a.pool, bindings, i + 1, vs \ {a.ref})
                : a \in {add(p, VarTerm(bindings[i][1], bindings[i][2]))} })

\* for (var, value) in bindings: the variable of the value's sort is removed
fv_remove_let(p, bindings, i, vs) ==
    IF i > Len(bindings) THEN FvDone(p, vs)
    ELSE IF ~has_sort(p, bindings[i][2]) THEN FvPanic(p)
    ELSE Only({ IF ~s.ok THEN FvPanic(s.pool)
                ELSE Only({ IF ~a.ok THEN FvPanic(a.pool)
                            ELSE fv_remove_let(a.pool, bindings, i + 1, vs \ {a.ref})
                            : a \in {add(s.pool, VarTerm(bindings[i][1], s.ref))} })
                : s \in {add(p, SortTerm(sort(p, bindings[i][2])))} })

\* The match of free_vars: the free variables of the term at r, not yet cached.
fv_of_term(p, r, t) ==
    CASE t.kind \in {"App", "Op"} -> fv_extend(p, t.args, 1, {})
      [] t.kind \in {"Quant", "Lambda", "Choice"} ->
           Only({ IF ~inner.ok THEN inner
                  ELSE fv_remove_bound(inner.pool, t.bindings, 1, inner.set)
                  : inner \in {free_vars(p, t.args[1])} })
      [] t.kind = "Let" ->
           Only({ IF ~inner.ok THEN inner
                  ELSE fv_remove_let(inner.pool, t.bindings, 1, inner.set)
                  : inner \in {free_vars(p, t.args[1])} })
      [] t.kind = "Var" /\ t.op = "Simple" -> FvDone(p, {r})
      [] OTHER -> FvDone(p, {})

\* A slip: the set is computed and returned but not stored.
free_vars_uncached(p, r) ==
    IF r \in DOMAIN p.free_vars_cache
    THEN FvDone(p, p.free_vars_cache[r])
    ELSE fv_of_term(p, r, p.heap[r])

\* TermPool::free_vars
free_vars(p, r) ==
    IF r \in DOMAIN p.free_vars_cache
    THEN FvDone(p, p.free_vars_cache[r])
    ELSE Only({ IF ~res.ok THEN res
                ELSE FvDone([res.pool EXCEPT !.free_vars_cache = (r :> res.set) @@ @],
                            res.set)
                : res \in {fv_of_term(p, r, p.heap[r])} })

\* TermPool::bool_true
bool_true(p) == p.bool_true

\* TermPool::bool_false
bool_false(p) == p.bool_false

\* TermPool::bool_constant
bool_constant(p, value) == IF value THEN bool_true(p) ELSE bool_false(p)

(***************************************************************************)
(* The calls made on one pool.  The terms handed to add are drawn from a   *)
(* finite universe of term shapes; a shape's children name earlier shapes, *)
(* and the term built from a shape holds the references the pool returned  *)
(* for its children, so a shape can be added once its children have been.  *)
(***************************************************************************)
Shape(kind, op, name, args, bindings) == MkTerm(kind, op, name, args, bindings)

Universe ==
    << Shape("Sort", "Bool", "", <<>>, <<>>),                    \* 1  Bool
       Shape("Var", "Simple", "true", <<1>>, <<>>),              \* 2  true
       Shape("Var", "Simple", "false", <<1>>, <<>>),             \* 3  false
       Shape("Sort", "Int", "", <<>>, <<>>),                     \* 4  Int
       Shape("Var", "Simple", "x", <<1>>, <<>>),                 \* 5  x : Bool
       Shape("Var", "Simple", "x", <<4>>, <<>>),                 \* 6  x : Int
       Shape("Integer", "", "1", <<>>, <<>>),                    \* 7  1
       Shape("Op", "Not", "", <<5>>, <<>>),                      \* 8  (not x)
       Shape("Op", "Equals", "", <<6, 7>>, <<>>),                \* 9  (= x 1)
       Shape("Quant", "forall", "", <<8>>, <<<<"x", 1>>>>),      \* 10 forall x:Bool. (not x)
       Shape("Quant", "forall", "", <<9>>, <<<<"x", 1>>>>),      \* 11 forall x:Bool. (= x 1)
       Shape("Lambda", "", "", <<7>>, <<<<"x", 1>>>>),           \* 12 lambda x:Bool. 1
       Shape("Let", "", "", <<9>>, <<<<"x", 7>>>>),              \* 13 let x = 1 in (= x 1)
       Shape("Choice", "", "", <<8>>, <<<<"x", 1>>>>)            \* 14 choice x:Bool. (not x)
    >>

\* The workloads: each a set of shapes closed under children.
Workloads ==
    << {2, 5, 8, 10, 14},       \* binders over a Bool variable
       {4, 6, 7, 9, 11, 13},    \* a free variable of a bound name, a let
       {2, 3, 5, 7, 12} >>      \* a lambda, whose sort interns a sort term

RECURSIVE Built(_, _)
RECURSIVE Ready(_, _)

\* The term of shape u, its children replaced by the pool's references.
Built(p, u) ==
    LET s == Universe[u]
    IN  MkTerm(s.kind, s.op, s.name,
               [i \in 1..Len(s.args) |-> p.terms[Built(p, s.args[i])]],
               [i \in 1..Len(s.bindings) |->
                   <<s.bindings[i][1], p.terms[Built(p, s.bindings[i][2])]>>])

\* Every child of shape u is interned, so the term of u can be built.
Ready(p, u) ==
    LET s == Universe[u]
    IN  /\ \A i \in 1..Len(s.args) :
             Ready(p, s.args[i]) /\ Built(p, s.args[i]) \in DOMAIN p.terms
        /\ \A i \in 1..Len(s.bindings) :
             Ready(p, s.bindings[i][2]) /\ Built(p, s.bindings[i][2]) \in DOMAIN p.terms

Refs(p) == 1..Len(p.heap)

\* The caller's record of what free_vars returned for which reference.
Answer(ref, set) == [ref |-> ref, set |-> set]

\* The caller's record of what add returned for which term.
Hand(term, ref) == [term |-> term, ref |-> ref]

\* The values of the proof variables while no step is checked.
NoStep == [index |-> "", clause |-> <<>>, rule |-> "", premises |-> <<>>]

NoResult ==
    [res |-> [kind |-> "none", a |-> 0, b |-> 0, id |-> "", range |-> "", n |-> 0],
     premises |-> <<>>, order |-> <<>>, used |-> 0, searched |-> FALSE]

NoElab ==
    [res |-> [kind |-> "none", a |-> 0, b |-> 0, id |-> "", range |-> "", n |-> 0],
     command |-> [cmd |-> "none", index |-> "", clause |-> <<>>, rule |-> "",
                  premises |-> <<>>, args |-> <<>>, discharge |-> <<>>,
                  commands |-> <<>>, assignment_args |-> <<>>, variable_args |-> <<>>],
     premise_equalities |-> <<>>, premises |-> <<>>, should_flip |-> <<>>]

\* no iterator was constructed
NoIter ==
    [proof |-> <<>>, proof_stack |-> <<>>, steps |-> <<>>, step_id |-> 0,
     returned |-> <<>>, status |-> "none"]

InitPool ==
    /\ pool = new
    /\ handed = {}
    /\ answers = {}
    /\ iter = NoIter
    /\ pstatus = "ok"
    /\ work \in 1..Len(Workloads)
    /\ step = NoStep
    /\ pc = "pool"
    /\ result = NoResult
    /\ elab = NoElab
    /\ recheck = NoResult

\* pool.add(term)
Add(u) ==
    /\ pstatus = "ok"
    /\ Len(pool.heap) < MaxPoolTerms
    /\ Ready(pool, u)
    /\ \E term \in {Built(pool, u)} : \E a \in {add(pool, term)} :
           /\ pool' = a.pool
           /\ pstatus' = IF a.ok THEN "ok" ELSE "panicked"
           /\ handed' = IF a.ok THEN handed \cup {Hand(term, a.ref)} ELSE handed
           /\ UNCHANGED <<answers, work, proofVars, iter>>

\* pool.add_all(vec![term1, term2])
AddAll(u1, u2) ==
    /\ pstatus = "ok"
    /\ Len(pool.heap) < MaxPoolTerms
    /\ Ready(pool, u1)
    /\ Ready(pool, u2)
    /\ \E terms \in {<<Built(pool, u1), Built(pool, u2)>>} :
       \E a \in {add_all(pool, terms)} :
           /\ pool' = a.pool
           /\ pstatus' = IF a.ok THEN "ok" ELSE "panicked"
           /\ handed' = IF a.ok
                        THEN handed \cup {Hand(terms[i], a.refs[i]) : i \in 1..2}
                        ELSE handed
           /\ UNCHANGED <<answers, work, proofVars, iter>>

\* pool.free_vars(&r)
FreeVars(r) ==
    /\ pstatus = "ok"
    /\ \E f \in {free_vars(pool, r)} :
           /\ pool' = f.pool
           /\ pstatus' = IF f.ok THEN "ok" ELSE "panicked"
           /\ answers' = IF f.ok THEN answers \cup {Answer(r, f.set)} ELSE answers
           /\ UNCHANGED <<handed, work, proofVars, iter>>

NextPool ==
    \/ \E u \in Workloads[work] : Add(u)
    \/ \E u1, u2 \in Workloads[work] : AddAll(u1, u2)
    \/ \E r \in Refs(pool) : FreeVars(r)

SpecPool == InitPool /\ [][NextPool]_vars

(***************************************************************************)
(* One term added to a pool.  The pool holds the terms a parser would have *)
(* interned before: sorts, literals, variables and three formulas over     *)
(* them.  The caller hands one more term to add, built from references of  *)
(* this pool, and then asks for its free variables.  The term is any       *)
(* operator applied to any arguments, well-sorted or not, an application,  *)
(* a terminal, a sort term or a binder.                                    *)
(***************************************************************************)
\* The terms interned before, in the order of their references 4, 5, ...
LeafTerms ==
    << SortTerm(SortInt),                                     \* 4  Int
       SortTerm(SortReal),                                    \* 5  Real
       MkTerm("Integer", "", "1", <<>>, <<>>),                \* 6  1
       MkTerm("Real", "", "1.5", <<>>, <<>>),                 \* 7  1.5
       VarTerm("x", 1),                                       \* 8  x : Bool
       VarTerm("x", 4),                                       \* 9  x : Int
       VarTerm("y", 4),                                       \* 10 y : Int
       SortTerm(MkSort("Array", "", <<4, 5>>)),               \* 11 (Array Int Real)
       VarTerm("arr", 11),                                    \* 12 arr
       SortTerm(MkSort("Function", "", <<4, 1>>)),            \* 13 Int -> Bool
       VarTerm("f", 13),                                      \* 14 f
       MkTerm("Op", "Not", "", <<8>>, <<>>),                  \* 15 (not x)
       MkTerm("Op", "Equals", "", <<9, 10>>, <<>>),           \* 16 (= x y), x y : Int
       MkTerm("Op", "And", "", <<15, 16>>, <<>>) >>           \* 17 (and (not x) (= x y))

LeafPool == add_all(new, LeafTerms).pool

Operators ==
    {"Not", "Implies", "And", "Or", "Xor", "Equals", "Distinct", "LessThan",
     "GreaterThan", "LessEq", "GreaterEq", "IsInt", "Ite", "Add", "Sub", "Mult",
     "RealDiv", "ToReal", "IntDiv", "Mod", "Abs", "ToInt", "Select", "Store"}

\* The arguments: true, 1, 1.5, arr, f.
ArgRefs == {2, 6, 7, 12, 14}

\* The sort terms of variables, and two terms that are not sorts: true and 1.
VarSortRefs == {1, 4, 5, 11, 13, 2, 6}

\* The (name, sort term) pairs of binders; the last is not a sort.
Binders == {<<"x", 1>>, <<"x", 4>>, <<"y", 4>>}

ChoiceBinders == Binders \cup {<<"x", 2>>}

\* The (name, value) pairs of let: values true and 1.
LetBinders == {"x", "y"} \X {2, 6}

\* The bodies of binders: (not x), (= x y), (and (not x) (= x y)), x : Bool.
Bodies == {15, 16, 17, 8}

SeqsUpTo(S, lo, hi) == UNION {[1..n -> S] : n \in lo..hi}

\* The terms a caller hands to add.
InputTerms ==
    {MkTerm("Op", op, "", args, <<>>) : op \in Operators, args \in SeqsUpTo(ArgRefs, 0, MaxArgs)}
    \cup {MkTerm("App", "", "", args, <<>>) : args \in SeqsUpTo(ArgRefs, 1, MaxArgs)}
    \cup {MkTerm("Integer", "", "2", <<>>, <<>>), MkTerm("Real", "", "2.5", <<>>, <<>>),
          MkTerm("String", "", "s", <<>>, <<>>), VarTerm("true", 1), VarTerm("false", 1),
          MkTerm("Var", "Indexed", "x", <<4>>, <<>>)}
    \cup {VarTerm(name, st) : name \in {"x", "z"}, st \in VarSortRefs}
    \cup {SortTerm(st) : st \in {SortBool, SortString, MkSort("Array", "", <<1, 4>>),
                                 MkSort("Function", "", <<>>)}}
    \cup {MkTerm(kind[1], kind[2], "", <<body>>, bs) :
             kind \in {<<"Quant", "forall">>, <<"Quant", "exists">>, <<"Lambda", "">>},
             body \in Bodies, bs \in SeqsUpTo(Binders, 1, MaxArgs)}
    \cup {MkTerm("Choice", "", "", <<body>>, <<b>>) : body \in Bodies, b \in ChoiceBinders}
    \cup {MkTerm("Let", "", "", <<body>>, bs) :
             body \in Bodies, bs \in SeqsUpTo(LetBinders, 1, MaxArgs)}

InitTerms ==
    /\ pool = LeafPool
    /\ work \in InputTerms
    /\ handed = {}
    /\ answers = {}
    /\ iter = NoIter
    /\ pstatus = "ok"
    /\ pc = "term"
    /\ step = NoStep
    /\ result = NoResult
    /\ elab = NoElab
    /\ recheck = NoResult

\* pool.add(term) for the term of the workload
AddTerm ==
    /\ pc = "term"
    /\ \E a \in {add(pool, work)} :
         /\ pool' = a.pool
         /\ pstatus' = IF a.ok THEN "ok" ELSE "panicked"
         /\ handed' = IF a.ok THEN {Hand(work, a.ref)} ELSE {}
    /\ pc' = "added"
    /\ UNCHANGED <<answers, work, step, result, elab, recheck, iter>>

\* pool.free_vars(&r) for the reference add returned
FreeVarsOfTerm ==
    /\ pc \in {"added", "asked"}
    /\ pstatus = "ok"
    /\ \E h \in handed : \E f \in {free_vars(pool, h.ref)} :
         /\ pool' = f.pool
         /\ pstatus' = IF f.ok THEN "ok" ELSE "panicked"
         /\ answers' = IF f.ok THEN answers \cup {Answer(h.ref, f.set)} ELSE answers
    /\ pc' = IF pc = "added" THEN "asked" ELSE "asked again"
    /\ UNCHANGED <<handed, work, step, result, elab, recheck, iter>>

NextTerms ==
    \/ AddTerm
    \/ FreeVarsOfTerm

SpecTerms == InitTerms /\ [][NextTerms]_vars

(***************************************************************************)
(* The rule results and the shared assertions (checker/rules/mod.rs).      *)
(***************************************************************************)
\* A RuleResult: Ok(()) or Err(CheckerError).  a and b are the terms an error
\* carries, id the premise it names, n the length it found.
Ok == [kind |-> "Ok", a |-> 0, b |-> 0, id |-> "", range |-> "", n |-> 0]

BrokenTransitivityChain(a, b) ==
    [kind |-> "BrokenTransitivityChain", a |-> a, b |-> b, id |-> "", range |-> "", n |-> 0]

\* range is the length or the lengths the clause may have: "1", "3.."
WrongLengthOfClause(range, n) ==
    [kind |-> "WrongLengthOfClause", a |-> 0, b |-> 0, id |-> "", range |-> range, n |-> n]

WrongLengthOfPremiseClause(id, range, n) ==
    [kind |-> "WrongLengthOfPremiseClause", a |-> 0, b |-> 0, id |-> id, range |-> range,
     n |-> n]

\* the error of match_term_err! on a term that does not match the pattern
TermOfWrongForm(term) ==
    [kind |-> "TermOfWrongForm", a |-> term, b |-> 0, id |-> "", range |-> "", n |-> 0]

\* not a CheckerError: the call panicked
Panicked == [kind |-> "panic", a |-> 0, b |-> 0, id |-> "", range |-> "", n |-> 0]

IsOk(res) == res.kind = "Ok"

\* A Premise: the identifier of the command it names, and that command's clause.
Premise(index, clause) == [index |-> index, clause |-> clause]

\* get_premise_term: the single term of a premise's clause
get_premise_term(premise) ==
    IF Len(premise.clause) = 1
    THEN [res |-> Ok, term |-> premise.clause[1]]
    ELSE [res |-> WrongLengthOfPremiseClause(premise.index, "1", Len(premise.clause)),
          term |-> 0]

\* match_term_err!((= t u) = term)
match_eq(p, term) ==
    LET t == p.heap[term]
    IN  IF t.kind = "Op" /\ t.op = "Equals" /\ Len(t.args) = 2
        THEN [res |-> Ok, eq |-> <<t.args[1], t.args[2]>>]
        ELSE [res |-> TermOfWrongForm(term), eq |-> <<0, 0>>]

\* match_term_err!((not (= t u)) = term)
match_not_eq(p, term) ==
    LET t == p.heap[term]
    IN  IF t.kind = "Op" /\ t.op = "Not" /\ Len(t.args) = 1
           /\ IsOk(match_eq(p, t.args[1]).res)
        THEN [res |-> Ok, eq |-> match_eq(p, t.args[1]).eq]
        ELSE [res |-> TermOfWrongForm(term), eq |-> <<0, 0>>]

\* build_term!(pool, (= {a} {b}))
build_eq(p, a, b) == add(p, MkTerm("Op", "Equals", "", <<a, b>>, <<>>))

\* build_term!(pool, (not {a}))
build_not(p, a) == add(p, MkTerm("Op", "Not", "", <<a>>, <<>>))

(***************************************************************************)
(* The chain search (checker/rules/transitivity.rs).                       *)
(***************************************************************************)
Min(S) == CHOOSE m \in S : \A n \in S : m <= n

\* A slip: the swap is left out.
swap_omitted(seq, i, j) == seq

\* Another way to bring entry j to position i <= j: the entries from i to j - 1
\* move up by one.
swap_by_rotation(seq, i, j) ==
    [k \in 1..Len(seq) |-> IF k = i THEN seq[j]
                           ELSE IF k > i /\ k <= j THEN seq[k - 1] ELSE seq[k]]

\* A slip: entry j is copied to position i and the entry of position i is lost.
swap_overwrite(seq, i, j) == [k \in 1..Len(seq) |-> IF k = i THEN seq[j] ELSE seq[k]]

\* slice.swap(i, j)
swap(seq, i, j) ==
    [k \in 1..Len(seq) |-> IF k = i THEN seq[j] ELSE IF k = j THEN seq[i] ELSE seq[k]]

\* A slip: only the left side of a premise is compared with the target.
find_link_left_only(conclusion, premises, lo) ==
    LET hits == {i \in lo..Len(premises) : premises[i][1] = conclusion[1]}
    IN  IF hits = {} THEN [found |-> FALSE, index |-> 0, eq |-> <<0, 0>>, flip |-> FALSE]
        ELSE [found |-> TRUE, index |-> Min(hits), eq |-> premises[Min(hits)],
              flip |-> FALSE]

\* A slip: a match on the right side is not recorded as a flip.
find_link_never_flipped(conclusion, premises, lo) ==
    LET hits == {i \in lo..Len(premises) :
                    premises[i][1] = conclusion[1] \/ premises[i][2] = conclusion[1]}
        index == Min(hits)
    IN  IF hits = {} THEN [found |-> FALSE, index |-> 0, eq |-> <<0, 0>>, flip |-> FALSE]
        ELSE IF premises[index][1] = conclusion[1]
        THEN [found |-> TRUE, index |-> index, eq |-> premises[index], flip |-> FALSE]
        ELSE [found |-> TRUE, index |-> index,
              eq |-> <<premises[index][2], premises[index][1]>>, flip |-> FALSE]

\* A slip: the right side of a premise is compared before the left side.
find_link_right_first(conclusion, premises, lo) ==
    LET hits == {i \in lo..Len(premises) :
                    premises[i][1] = conclusion[1] \/ premises[i][2] = conclusion[1]}
        index == Min(hits)
    IN  IF hits = {} THEN [found |-> FALSE, index |-> 0, eq |-> <<0, 0>>, flip |-> FALSE]
        ELSE IF premises[index][2] = conclusion[1]
        THEN [found |-> TRUE, index |-> index,
              eq |-> <<premises[index][2], premises[index][1]>>, flip |-> TRUE]
        ELSE [found |-> TRUE, index |-> index, eq |-> premises[index], flip |-> FALSE]

\* A slip: the last matching premise of the slice is taken, not the first.
find_link_highest(conclusion, premises, lo) ==
    LET hits == {i \in lo..Len(premises) :
                    premises[i][1] = conclusion[1] \/ premises[i][2] = conclusion[1]}
        index == CHOOSE i \in hits : \A j \in hits : j <= i
    IN  IF hits = {} THEN [found |-> FALSE, index |-> 0, eq |-> <<0, 0>>, flip |-> FALSE]
        ELSE IF premises[index][1] = conclusion[1]
        THEN [found |-> TRUE, index |-> index, eq |-> premises[index], flip |-> FALSE]
        ELSE [found |-> TRUE, index |-> index,
              eq |-> <<premises[index][2], premises[index][1]>>, flip |-> TRUE]

\* The find_map of find_chain and of reconstruct_chain over the slice
\* premises[lo..]: the first equality with a side identical to the left side
\* of the target, oriented so that this side comes first; flip tells that the
\* match was on the right side.
find_link(conclusion, premises, lo) ==
    LET hits == {i \in lo..Len(premises) :
                    premises[i][1] = conclusion[1] \/ premises[i][2] = conclusion[1]}
        index == Min(hits)
    IN  IF hits = {} THEN [found |-> FALSE, index |-> 0, eq |-> <<0, 0>>, flip |-> FALSE]
        ELSE IF premises[index][1] = conclusion[1]
        THEN [found |-> TRUE, index |-> index, eq |-> premises[index], flip |-> FALSE]
        ELSE [found |-> TRUE, index |-> index,
              eq |-> <<premises[index][2], premises[index][1]>>, flip |-> TRUE]

\* A slip: a search that finds no premise ends the chain instead of failing.
chain_error_ignored(conclusion) == Ok

\* A slip: the error names the two terms in the wrong order.
chain_error_swapped(conclusion) == BrokenTransitivityChain(conclusion[2], conclusion[1])

\* the ok_or_else of the search: the error of a target no premise matches
chain_error(conclusion) == BrokenTransitivityChain(conclusion[1], conclusion[2])

RECURSIVE find_chain_from(_, _, _, _)
\* find_chain(conclusion, &mut premises[lo..]).  premises is the whole vector,
\* of which the call sees the slice from lo on; order records, for every
\* position of the vector, the input position of the entry now standing there.
\* The result holds the vector as the search leaves it and the number of
\* premises the chain used; searched tells that find_chain was called.
find_chain_from(conclusion, premises, order, lo) ==
    IF conclusion[1] = conclusion[2]
    THEN [res |-> Ok, premises |-> premises, order |-> order, used |-> lo - 1,
          searched |-> TRUE]
    ELSE Only({
           IF ~link.found
           THEN [res |-> chain_error(conclusion), premises |-> premises,
                 order |-> order, used |-> lo - 1, searched |-> TRUE]
           ELSE Only({ find_chain_from(<<link.eq[2], conclusion[2]>>, sw[1], sw[2], lo + 1)
                       : sw \in {<<swap(premises, lo, link.index),
                                   swap(order, lo, link.index)>>} })
           : link \in {find_link(conclusion, premises, lo)} })

\* find_chain
find_chain(conclusion, premises) ==
    find_chain_from(conclusion, premises, [i \in 1..Len(premises) |-> i], 1)

\* The outcome of a rule that fails before the chain search.
NoSearch(res) == [res |-> res, premises |-> <<>>, order |-> <<>>, used |-> 0, searched |-> FALSE]

\* A slip: the last error of the sequence is reported, not the first.
last_error(results) ==
    IF \A i \in 1..Len(results) : IsOk(results[i]) THEN Ok
    ELSE results[CHOOSE i \in 1..Len(results) :
                    ~IsOk(results[i]) /\ \A j \in (i + 1)..Len(results) : IsOk(results[j])]

\* The first error of a sequence of results, Ok if there is none
\* (collect::<Result<_, _>>() stops at the first Err).
first_error(results) ==
    IF \A i \in 1..Len(results) : IsOk(results[i]) THEN Ok
    ELSE results[Min({i \in 1..Len(results) : ~IsOk(results[i])})]

\* assert_clause_len(conclusion, 3..)
assert_clause_len_min(clause, min) ==
    IF Len(clause) < min THEN WrongLengthOfClause(ToString(min) \o "..", Len(clause)) ELSE Ok

\* assert_clause_len(conclusion, 1)
assert_clause_len(clause, n) ==
    IF Len(clause) # n THEN WrongLengthOfClause(ToString(n), Len(clause)) ELSE Ok

\* eq_transitive
eq_transitive(p, conclusion) ==
    IF ~IsOk(assert_clause_len_min(conclusion, 3))
    THEN NoSearch(assert_clause_len_min(conclusion, 3))
    ELSE
    LET chain_conclusion == match_eq(p, conclusion[Len(conclusion)])
        matched == [i \in 1..(Len(conclusion) - 1) |-> match_not_eq(p, conclusion[i])]
        error == first_error([i \in 1..Len(matched) |-> matched[i].res])
    IN  IF ~IsOk(chain_conclusion.res) THEN NoSearch(chain_conclusion.res)
        ELSE IF ~IsOk(error) THEN NoSearch(error)
        ELSE find_chain(chain_conclusion.eq, [i \in 1..Len(matched) |-> matched[i].eq])

\* The equalities of the premises of trans and reconstruct_trans: the term of
\* each premise, matched against (= t u); the first failure is the error.
premise_eqs(p, premises) ==
    LET terms == [i \in 1..Len(premises) |-> get_premise_term(premises[i])]
        matched == [i \in 1..Len(premises) |->
                      IF IsOk(terms[i].res) THEN match_eq(p, terms[i].term)
                      ELSE [res |-> terms[i].res, eq |-> <<0, 0>>]]
    IN  [res |-> first_error([i \in 1..Len(matched) |-> matched[i].res]),
         eqs |-> [i \in 1..Len(matched) |-> matched[i].eq]]

\* trans
trans(p, conclusion, premises) ==
    IF ~IsOk(assert_clause_len(conclusion, 1))
    THEN NoSearch(assert_clause_len(conclusion, 1))
    ELSE
    LET chain_conclusion == match_eq(p, conclusion[1])
        eqs == premise_eqs(p, premises)
    IN  IF ~IsOk(chain_conclusion.res) THEN NoSearch(chain_conclusion.res)
        ELSE IF ~IsOk(eqs.res) THEN NoSearch(eqs.res)
        ELSE find_chain(chain_conclusion.eq, eqs.eqs)

(***************************************************************************)
(* The elaborator of trans (checker/rules/transitivity.rs).                *)
(***************************************************************************)
RECURSIVE reconstruct_chain_from(_, _, _, _, _)
\* reconstruct_chain(conclusion, &mut premise_equalities[lo..],
\* &mut premises[lo..], should_flip)
reconstruct_chain_from(conclusion, premise_equalities, premises, should_flip, lo) ==
    IF conclusion[1] = conclusion[2]
    THEN [res |-> Ok, premise_equalities |-> premise_equalities,
          premises |-> premises, should_flip |-> should_flip]
    ELSE Only({
           IF ~link.found
           THEN [res |-> chain_error(conclusion),
                 premise_equalities |-> premise_equalities,
                 premises |-> premises, should_flip |-> should_flip]
           ELSE Only({ reconstruct_chain_from(<<link.eq[2], conclusion[2]>>,
                                              sw[1], sw[2],
                                              Append(should_flip, link.flip), lo + 1)
                       : sw \in {<<swap(premise_equalities, lo, link.index),
                                   swap(premises, lo, link.index)>>} })
           : link \in {find_link(conclusion, premise_equalities, lo)} })

\* A slip: the elaborator searches from the right side of the conclusion.
reconstruct_chain_from_rhs(conclusion, premise_equalities, premises) ==
    reconstruct_chain_from(<<conclusion[2], conclusion[1]>>, premise_equalities,
                           premises, <<>>, 1)

\* reconstruct_chain
reconstruct_chain(conclusion, premise_equalities, premises) ==
    reconstruct_chain_from(conclusion, premise_equalities, premises, <<>>, 1)

\* The commands of a proof.  A ProofStep and a Subproof are records of one
\* shape; cmd tells which one it is.
ProofStep(index, clause, rule, premises) ==
    [cmd |-> "Step", index |-> index, clause |-> clause, rule |-> rule,
     premises |-> premises, args |-> <<>>, discharge |-> <<>>,
     commands |-> <<>>, assignment_args |-> <<>>, variable_args |-> <<>>]

Subproof(commands) ==
    [cmd |-> "Subproof", index |-> "", clause |-> <<>>, rule |-> "",
     premises |-> <<>>, args |-> <<>>, discharge |-> <<>>,
     commands |-> commands, assignment_args |-> <<>>, variable_args |-> <<>>]

NoCommand ==
    [cmd |-> "none", index |-> "", clause |-> <<>>, rule |-> "",
     premises |-> <<>>, args |-> <<>>, discharge |-> <<>>,
     commands |-> <<>>, assignment_args |-> <<>>, variable_args |-> <<>>]

\* the filter_map of reconstruct_trans: the positions of should_flip that hold
\* true, in increasing order
flip_indices(should_flip) ==
    LET S == {i \in 1..Len(should_flip) : should_flip[i]}
        Nth[k \in 1..Cardinality(S)] ==
            CHOOSE i \in S : Cardinality({j \in S : j < i}) = k - 1
    IN  [k \in 1..Cardinality(S) |-> Nth[k]]

\* A slip: the synthesized steps are numbered from 0.
symm_index_from_zero(command_index, i) == command_index \o ".t" \o ToString(i)

\* format!("{}.t{}", command_index, i + 1), i counting from 0
symm_index(command_index, i) == command_index \o ".t" \o ToString(i + 1)

\* A slip: the clause of the symm step repeats the premise.
symm_conclusion_unswapped(p, eq) == build_eq(p, eq[1], eq[2])

\* build_term!(pool, (= {b} {a})) for the premise equality (a, b)
symm_conclusion(p, eq) == build_eq(p, eq[2], eq[1])

RECURSIVE symm_steps(_, _, _, _, _, _, _)
\* The map over should_flip that builds the symm steps, from its element i
\* (counting from 0) on: steps are those built so far, new_premises the premise
\* list with the slots of the steps built so far redirected.
symm_steps(p, command_index, premise_equalities, flips, i, new_premises, steps) ==
    IF i >= Len(flips)
    THEN [pool |-> p, new_premises |-> new_premises, steps |-> steps, ok |-> TRUE]
    ELSE Only({
           IF ~c.ok
           THEN [pool |-> c.pool, new_premises |-> new_premises, steps |-> steps,
                 ok |-> FALSE]
           ELSE Only({
                  symm_steps(c.pool, command_index, premise_equalities, flips, i + 1,
                             [new_premises EXCEPT ![j] = Premise(index, <<c.ref>>)],
                             Append(steps,
                                    ProofStep(index, <<c.ref>>, "symm", <<new_premises[j]>>)))
                  : index \in {symm_index(command_index, i)} })
           : c \in {symm_conclusion(p, premise_equalities[flips[i + 1]])},
             j \in {flips[i + 1]} })

\* The outcome of reconstruct_trans: the result, the command it returns, the
\* pool it leaves, and what its chain search left behind (the reordered
\* equalities and premises, and the flip vector).
Elaborated(res, command, p, chain) ==
    [res |-> res, command |-> command, pool |-> p,
     premise_equalities |-> chain.premise_equalities,
     premises |-> chain.premises, should_flip |-> chain.should_flip]

NoChain == [res |-> Ok, premise_equalities |-> <<>>, premises |-> <<>>, should_flip |-> <<>>]

\* reconstruct_trans
reconstruct_trans(p, conclusion, premises, command_index) ==
    IF ~IsOk(assert_clause_len(conclusion, 1))
    THEN Elaborated(assert_clause_len(conclusion, 1), NoCommand, p, NoChain)
    ELSE IF ~IsOk(match_eq(p, conclusion[1]).res)
    THEN Elaborated(match_eq(p, conclusion[1]).res, NoCommand, p, NoChain)
    ELSE IF ~IsOk(premise_eqs(p, premises).res)
    THEN Elaborated(premise_eqs(p, premises).res, NoCommand, p, NoChain)
    ELSE Only({
           IF ~IsOk(chain.res) THEN Elaborated(chain.res, NoCommand, p, chain)
           ELSE IF flip_indices(chain.should_flip) = <<>>
           THEN Elaborated(Ok, ProofStep(command_index, conclusion, "trans", chain.premises),
                           p, chain)
           ELSE Only({
                  IF ~sub.ok THEN Elaborated(Panicked, NoCommand, sub.pool, chain)
                  ELSE
                  Elaborated(Ok,
                             Subproof(Append(sub.steps,
                                             ProofStep(command_index, conclusion, "trans",
                                                       sub.new_premises))),
                             sub.pool, chain)
                  : sub \in {symm_steps(p, command_index, chain.premise_equalities,
                                        flip_indices(chain.should_flip), 0,
                                        chain.premises, <<>>)} })
           : chain \in {reconstruct_chain(match_eq(p, conclusion[1]).eq,
                                          premise_eqs(p, premises).eqs, premises)} })

(***************************************************************************)
(* The step under check.  As in the tests of the rules, a step is over     *)
(* constants of a declared sort T; the parser has interned the terms of    *)
(* its clause and of its premises in the pool.  Up to the names of the     *)
(* constants, a conclusion is (= a a) or (= a b).                          *)
(***************************************************************************)
Atoms == {"a", "b", "c"}

Pairs == Atoms \X Atoms

Conclusions == {<<"a", "a">>, <<"a", "b">>}

Rules == {"eq_transitive", "trans"}

SortT == MkSort("Atom", "T", <<>>)

\* the constant of a name, of sort T
intern_const(p, name) ==
    Only({ add(s.pool, VarTerm(name, s.ref)) : s \in {add(p, SortTerm(SortT))} })

\* (= x y) for a pair (x, y) of names
intern_eq(p, pair) ==
    Only({ Only({ build_eq(y.pool, x.ref, y.ref)
                  : y \in {intern_const(x.pool, pair[2])} })
           : x \in {intern_const(p, pair[1])} })

\* (not (= x y)) for a pair (x, y) of names
intern_not_eq(p, pair) ==
    Only({ build_not(e.pool, e.ref) : e \in {intern_eq(p, pair)} })

RECURSIVE intern_literals(_, _, _, _, _)
\* the literals of the pairs from position i on, negated or not
intern_literals(p, pairs, negated, i, refs) ==
    IF i > Len(pairs) THEN [pool |-> p, refs |-> refs]
    ELSE Only({ intern_literals(l.pool, pairs, negated, i + 1, Append(refs, l.ref))
                : l \in {IF negated THEN intern_not_eq(p, pairs[i])
                         ELSE intern_eq(p, pairs[i])} })

\* The parsed step of a rule, a conclusion pair and premise pairs.
\*   eq_transitive: (step t1 (cl (not (= x1 y1)) ... (= a b)) :rule eq_transitive)
\*   trans: (assume h1 (= x1 y1)) ...
\*          (step t<n+1> (cl (= a b)) :rule trans :premises (h1 ...))
parse_step(rule, conclusion, pairs) ==
    Only({ Only({
             [pool |-> c.pool,
              step |->
                IF rule = "eq_transitive"
                THEN [index |-> "t1", clause |-> Append(ls.refs, c.ref),
                      rule |-> rule, premises |-> <<>>]
                ELSE [index |-> "t" \o ToString(Len(pairs) + 1), clause |-> <<c.ref>>,
                      rule |-> rule,
                      premises |-> [i \in 1..Len(pairs) |->
                                      Premise("h" \o ToString(i), <<ls.refs[i]>>)]]]
             : c \in {intern_eq(ls.pool, conclusion)} })
           : ls \in {intern_literals(new, pairs, rule = "eq_transitive", 1, <<>>)} })

InitChain ==
    /\ \E rule \in Rules, conclusion \in Conclusions, n \in 0..MaxPremises :
         \E pairs \in [1..n -> Pairs] :
           \E parsed \in {parse_step(rule, conclusion, pairs)} :
              /\ pool = parsed.pool
              /\ step = parsed.step
    /\ pc = "parsed"
    /\ result = NoResult
    /\ elab = NoElab
    /\ recheck = NoResult
    /\ handed = {}
    /\ answers = {}
    /\ iter = NoIter
    /\ pstatus = "ok"
    /\ work = 0

\* The rule of the step is applied to it.
CheckStep ==
    /\ pc = "parsed"
    /\ result' = IF step.rule = "eq_transitive"
                 THEN eq_transitive(pool, step.clause)
                 ELSE trans(pool, step.clause, step.premises)
    /\ pc' = "checked"
    /\ UNCHANGED <<pool, poolVars, step, elab, recheck, iter>>

\* The trans step of the command the elaborator returned: the command itself,
\* or the last command of the subproof.
emitted_trans(command) ==
    IF command.cmd = "Subproof" THEN command.commands[Len(command.commands)]
    ELSE command

\* new_premises of reconstruct_trans when it returns: the premises of the
\* emitted trans step, or what the failed search left
new_premises_of(e) ==
    IF IsOk(e.res) THEN emitted_trans(e.command).premises ELSE e.premises

\* A slip: the search and the redirection work on the caller's list.
to_vec_aliased(premises, new_premises) == new_premises

\* let mut new_premises = premises.to_vec(): the caller's premise list after
\* the call, given what the call made of new_premises.  The list is borrowed
\* immutably and the elaborator works on a copy.
to_vec(premises, new_premises) == premises

\* The elaborator of trans is applied to the step.
ElaborateStep ==
    /\ pc = "checked"
    /\ step.rule = "trans"
    /\ \E e \in {reconstruct_trans(pool, step.clause, step.premises, step.index)} :
         /\ elab' = [res |-> e.res, command |-> e.command,
                     premise_equalities |-> e.premise_equalities,
                     premises |-> e.premises, should_flip |-> e.should_flip]
         /\ pool' = e.pool
         /\ step' = [step EXCEPT !.premises = to_vec(@, new_premises_of(e))]
    /\ pc' = "elaborated"
    /\ UNCHANGED <<poolVars, result, recheck, iter>>

\* The trans step the elaborator emitted is checked.
CheckElaborated ==
    /\ pc = "elaborated"
    /\ IsOk(elab.res)
    /\ recheck' = trans(pool, emitted_trans(elab.command).clause,
                        emitted_trans(elab.command).premises)
    /\ pc' = "rechecked"
    /\ UNCHANGED <<pool, poolVars, step, result, elab, iter>>

NextChain ==
    \/ CheckStep
    \/ ElaborateStep
    \/ CheckElaborated

SpecChain == InitChain /\ [][NextChain]_vars

(***************************************************************************)
(* Steps of any shape.  As in the tests "Clause term is not an             *)
(* inequality", "Final term is not an equality", "Clause is too small",    *)
(* "Premise term is not an equality" and "Conclusion clause is of the      *)
(* wrong form", a literal is an equality, a negated equality or another    *)
(* Bool term, and a clause can be shorter or longer than the rule asks.    *)
(***************************************************************************)
\* A literal: its form and, for the forms with an equality, the equality.
Lit(form, pair) == [form |-> form, pair |-> pair]

Literals ==
    {Lit(form, pair) : form \in {"eq", "not_eq"},
                       pair \in {<<"a", "b">>, <<"b", "c">>, <<"a", "c">>}}
    \cup {Lit("true", <<"a", "a">>), Lit("not_true", <<"a", "a">>)}

\* The conclusion clauses of the trans steps.
TransClauses ==
    { <<>>, <<Lit("eq", <<"a", "c">>)>>, <<Lit("not_eq", <<"a", "c">>)>>,
      <<Lit("true", <<"a", "a">>)>>,
      <<Lit("eq", <<"a", "c">>), Lit("eq", <<"a", "c">>)>> }

\* The clauses of the premises of the trans steps.
PremiseClauses ==
    { <<>>, <<Lit("eq", <<"a", "b">>)>>, <<Lit("eq", <<"b", "c">>)>>,
      <<Lit("eq", <<"c", "b">>)>>, <<Lit("not_eq", <<"b", "c">>)>>, <<Lit("true", <<"a", "a">>)>>,
      <<Lit("eq", <<"a", "b">>), Lit("eq", <<"b", "c">>)>> }

\* the term of a literal
intern_lit(p, lit) ==
    IF lit.form = "eq" THEN intern_eq(p, lit.pair)
    ELSE IF lit.form = "not_eq" THEN intern_not_eq(p, lit.pair)
    ELSE IF lit.form = "true" THEN [pool |-> p, ref |-> bool_true(p), ok |-> TRUE]
    ELSE build_not(p, bool_true(p))

RECURSIVE intern_clause(_, _, _, _)
\* the terms of the literals of a clause from position i on
intern_clause(p, lits, i, refs) ==
    IF i > Len(lits) THEN [pool |-> p, refs |-> refs]
    ELSE Only({ intern_clause(l.pool, lits, i + 1, Append(refs, l.ref))
                : l \in {intern_lit(p, lits[i])} })

RECURSIVE intern_premises(_, _, _, _)
\* (assume h<i> lits...) for the clauses from position i on
intern_premises(p, clauses, i, premises) ==
    IF i > Len(clauses) THEN [pool |-> p, premises |-> premises]
    ELSE Only({ intern_premises(c.pool, clauses, i + 1,
                                Append(premises, Premise("h" \o ToString(i), c.refs)))
                : c \in {intern_clause(p, clauses[i], 1, <<>>)} })

\* The parsed step of a rule, the literals of its clause and the clauses of its
\* premises.
parse_any_step(rule, lits, clauses) ==
    Only({ Only({
             [pool |-> c.pool,
              step |-> [index |-> "t" \o ToString(Len(clauses) + 1), clause |-> c.refs,
                        rule |-> rule, premises |-> ps.premises]]
             : c \in {intern_clause(ps.pool, lits, 1, <<>>)} })
           : ps \in {intern_premises(new, clauses, 1, <<>>)} })

InitShape ==
    /\ \/ \E n \in 0..MaxLiterals : \E lits \in [1..n -> Literals] :
            \E parsed \in {parse_any_step("eq_transitive", lits, <<>>)} :
               pool = parsed.pool /\ step = parsed.step
       \/ \E lits \in TransClauses : \E n \in 0..MaxShapePremises :
            \E clauses \in [1..n -> PremiseClauses] :
              \E parsed \in {parse_any_step("trans", lits, clauses)} :
                 pool = parsed.pool /\ step = parsed.step
    /\ pc = "parsed"
    /\ result = NoResult
    /\ elab = NoElab
    /\ recheck = NoResult
    /\ handed = {}
    /\ answers = {}
    /\ iter = NoIter
    /\ pstatus = "ok"
    /\ work = 0

SpecShape == InitShape /\ [][NextChain]_vars

(***************************************************************************)
(* Properties of the term pool.                                            *)
(***************************************************************************)
\* C1 (interning): of all the references add and add_all have returned so far,
\* two are the same reference exactly when they were returned for structurally
\* equal terms; and every returned reference is still the pool's entry for its
\* term and still holds that term (no entry is removed or replaced), so a later
\* add of the term returns it again.
C1_Interning ==
    /\ \A h1, h2 \in handed : (h1.term = h2.term) <=> (h1.ref = h2.ref)
    /\ \A h \in handed :
          /\ h.term \in DOMAIN pool.terms
          /\ pool.terms[h.term] = h.ref
          /\ pool.heap[h.ref] = h.term

\* A pool on which add was called for an already interned term (the constant
\* true) and for two different terms, and in which a call (free_vars, or the
\* sort of a lambda) interned a term that the caller never added.
C1_Witness ==
    /\ pstatus = "ok"
    /\ \E h \in handed : h.ref = bool_true(pool)
    /\ \E h1, h2 \in handed : h1.term # h2.term /\ h1.ref # h2.ref
    /\ DOMAIN pool.free_vars_cache # {}
    /\ \E r \in Refs(pool) : r > 3 /\ \A h \in handed : h.ref # r

(***************************************************************************)
(* Properties of the transitivity rules.                                   *)
(***************************************************************************)
\* The step has the shape its rule asks for, so that the rule runs the chain
\* search.
ShapeOk ==
    IF step.rule = "eq_transitive"
    THEN /\ Len(step.clause) >= 3
         /\ IsOk(match_eq(pool, step.clause[Len(step.clause)]).res)
         /\ \A i \in 1..(Len(step.clause) - 1) : IsOk(match_not_eq(pool, step.clause[i]).res)
    ELSE /\ step.rule = "trans"
         /\ Len(step.clause) = 1
         /\ IsOk(match_eq(pool, step.clause[1]).res)
         /\ \A i \in 1..Len(step.premises) :
              /\ Len(step.premises[i].clause) = 1
              /\ IsOk(match_eq(pool, step.premises[i].clause[1]).res)

\* The conclusion equality (lhs, rhs) of a well-shaped step.
Target == match_eq(pool, step.clause[Len(step.clause)]).eq

\* The premise equalities of a well-shaped step, as written.
Given ==
    IF step.rule = "eq_transitive"
    THEN [i \in 1..(Len(step.clause) - 1) |-> match_not_eq(pool, step.clause[i]).eq]
    ELSE [i \in 1..Len(step.premises) |-> match_eq(pool, step.premises[i].clause[1]).eq]

RECURSIVE ChainOfAll(_, _, _, _)
\* The premises of the positions S, every one used once, can be ordered and
\* oriented into a chain from x to rhs.
ChainOfAll(x, rhs, pairs, S) ==
    IF S = {} THEN x = rhs
    ELSE \E i \in S :
           \/ pairs[i][1] = x /\ ChainOfAll(pairs[i][2], rhs, pairs, S \ {i})
           \/ pairs[i][2] = x /\ ChainOfAll(pairs[i][1], rhs, pairs, S \ {i})

RECURSIVE ChainOfSome(_, _, _, _)
\* Some of the premises of the positions S, each used at most once, can be
\* ordered and oriented into a chain from x to rhs.
ChainOfSome(x, rhs, pairs, S) ==
    \/ x = rhs
    \/ \E i \in S :
         \/ pairs[i][1] = x /\ ChainOfSome(pairs[i][2], rhs, pairs, S \ {i})
         \/ pairs[i][2] = x /\ ChainOfSome(pairs[i][1], rhs, pairs, S \ {i})

CanChainAll == ChainOfAll(Target[1], Target[2], Given, 1..Len(Given))

CanChainSome == ChainOfSome(Target[1], Target[2], Given, 1..Len(Given))

RECURSIVE Walk(_, _, _, _)
\* The term reached from x along entries i..k of pairs, read in order, each in
\* the orientation that continues the chain; 0 if an entry does not continue it.
Walk(x, pairs, i, k) ==
    IF i > k THEN x
    ELSE IF pairs[i][1] = x THEN Walk(pairs[i][2], pairs, i + 1, k)
    ELSE IF pairs[i][2] = x THEN Walk(pairs[i][1], pairs, i + 1, k)
    ELSE 0

\* The permutations of 1..n.
Perms(n) == {f \in [1..n -> 1..n] : \A i, j \in 1..n : f[i] = f[j] => i = j}

\* The premise list pairs, reordered by f and with the positions of F written
\* the other way round.
Variant(pairs, f, F) ==
    [i \in 1..Len(pairs) |->
        IF i \in F THEN <<pairs[f[i]][2], pairs[f[i]][1]>> ELSE pairs[f[i]]]

Checked == pc \in {"checked", "elaborated", "rechecked"} /\ ShapeOk

\* The rule has just returned its verdict on a well-shaped step.
JustChecked == pc = "checked" /\ ShapeOk

\* C2, as claimed: the rules accept exactly when the premises, all of them, can
\* be ordered and oriented into a chain from the left side to the right side of
\* the conclusion.
C2_AcceptIffAllChain ==
    Checked => (IsOk(result.res) <=> CanChainAll)

\* C2, amended: eq_transitive and trans accept whenever the premises, all of
\* them, can be ordered and oriented into a chain from a to b, and they accept
\* only if some of the premises, each used at most once, can be so ordered and
\* oriented; premises beyond the chain do not have to be used.
C2_AcceptBetweenAllAndSome ==
    Checked => /\ CanChainAll => IsOk(result.res)
               /\ IsOk(result.res) => CanChainSome

\* An eq_transitive step that is accepted with a chain that uses all three of
\* its premises, which the search had to reorder.
C2_Witness ==
    /\ Checked
    /\ step.rule = "eq_transitive"
    /\ IsOk(result.res)
    /\ Len(Given) = 3
    /\ result.used = 3
    /\ result.order # <<1, 2, 3>>
    /\ CanChainAll

\* C3 (chain soundness): when the search returns ok, the vector it leaves is a
\* permutation of the premises as given, and the first k entries of it, k the
\* number of premises the search took, read in order and each in one of its
\* orientations, lead from lhs to rhs; k = 0 exactly when lhs is rhs.
C3_ChainSoundness ==
    (Checked /\ IsOk(result.res)) =>
        /\ result.used <= Len(Given)
        /\ result.order \in Perms(Len(Given))
        /\ result.premises = [i \in 1..Len(Given) |-> Given[result.order[i]]]
        /\ Walk(Target[1], result.premises, 1, result.used) = Target[2]
        /\ (result.used = 0) <=> (Target[1] = Target[2])

\* An accepted step whose chain takes two reordered premises and leaves one.
C3_Witness ==
    /\ Checked
    /\ IsOk(result.res)
    /\ result.used = 2
    /\ Len(Given) = 3
    /\ result.order[1] # 1

\* The verdict of the chain search on a premise list.
Accepts(pairs) == IsOk(find_chain(Target, pairs).res)

\* C4, as claimed: the verdict is the same for every permutation of the
\* premises and every choice of premises written the other way round.
C4_OrderAndOrientationIndependent ==
    JustChecked =>
        \A f \in Perms(Len(Given)) : \A F \in SUBSET (1..Len(Given)) :
            Accepts(Variant(Given, f, F)) = IsOk(result.res)

\* C4, amended: the verdict does not depend on which side of each premise is
\* written first; and when the premises can all be used in one chain from a to
\* b, it does not depend on their order either: every permutation of them is
\* accepted.  (With premises that the chain leaves over, the verdict can change
\* with the order.)
C4_OrientationIndependent ==
    JustChecked =>
        /\ \A F \in SUBSET (1..Len(Given)) :
              Accepts(Variant(Given, [i \in 1..Len(Given) |-> i], F)) = IsOk(result.res)
        /\ CanChainAll =>
              \A f \in Perms(Len(Given)) : Accepts(Variant(Given, f, {}))

\* A step accepted although its first premise is written the other way round
\* and its premises are not in chain order.
C4_Witness ==
    /\ Checked
    /\ IsOk(result.res)
    /\ Len(Given) = 3
    /\ result.used = 3
    /\ Given[1][2] = Target[1]
    /\ Given[1][1] # Target[1]
    /\ result.order = <<1, 3, 2>>

\* C5 (completeness of the greedy search): if the premises, every one used
\* once, can be ordered and oriented into a chain from lhs to rhs, the search
\* returns ok on them as they are given, in whatever order and orientation.
C5_GreedyComplete ==
    (Checked /\ CanChainAll) => IsOk(result.res)

\* A step whose premises all chain and in which the search had a choice: two
\* premises match the first target, and the search took the first.
C5_Witness ==
    /\ Checked
    /\ CanChainAll
    /\ IsOk(result.res)
    /\ Len(Given) = 3
    /\ Target[1] # Target[2]
    /\ Cardinality({i \in 1..3 : Target[1] \in {Given[i][1], Given[i][2]}}) >= 2

\* The elaborator returned a command for the step.
Elaborated_ok == pc \in {"elaborated", "rechecked"} /\ IsOk(elab.res)

\* The symm steps of the command the elaborator returned.
SymmSteps ==
    IF elab.command.cmd = "Subproof"
    THEN SubSeq(elab.command.commands, 1, Len(elab.command.commands) - 1)
    ELSE <<>>

\* The positions of the reordered premise list that were matched on the right.
Flipped == {i \in 1..Len(elab.should_flip) : elab.should_flip[i]}

\* The rank of a flipped position among the flipped positions.
Rank(i) == Cardinality({j \in Flipped : j <= i})

\* The equality of a unit clause.
ClauseEq(clause) == match_eq(pool, clause[1]).eq

\* C6 (elaborator faithfulness): when reconstruct_trans succeeds, the premises
\* of the trans step it emits, read in order and as written, start with
\* (= a x1), (= x1 x2), ..., (= xk-1 b) for the conclusion (= a b); every
\* premise of it is a premise of the original step or a symm step of the
\* subproof whose own premise is a premise of the original step and whose
\* clause is that premise's equality the other way round; and the trans rule
\* accepts the emitted step, taking its premises in the order they stand in.
C6_ElaboratorFaithful ==
    Elaborated_ok =>
        LET ts == emitted_trans(elab.command)
            k == Len(elab.should_flip)
            eqs == [i \in 1..Len(ts.premises) |-> ClauseEq(ts.premises[i].clause)]
            originals == {step.premises[i] : i \in 1..Len(step.premises)}
            symms == {SymmSteps[i] : i \in 1..Len(SymmSteps)}
        IN  /\ ts.rule = "trans"
            /\ \A i \in 1..Len(ts.premises) : Len(ts.premises[i].clause) = 1
            /\ k <= Len(eqs)
            /\ \A i \in 1..k : eqs[i][1] = (IF i = 1 THEN Target[1] ELSE eqs[i - 1][2])
            /\ (IF k = 0 THEN Target[1] ELSE eqs[k][2]) = Target[2]
            /\ \A i \in 1..Len(ts.premises) :
                 \/ ts.premises[i] \in originals
                 \/ \E c \in symms :
                      /\ ts.premises[i] = Premise(c.index, c.clause)
                      /\ c.rule = "symm"
                      /\ Len(c.premises) = 1
                      /\ c.premises[1] \in originals
                      /\ ClauseEq(c.clause) = <<ClauseEq(c.premises[1].clause)[2],
                                                ClauseEq(c.premises[1].clause)[1]>>
            /\ pc = "rechecked" =>
                 /\ IsOk(recheck.res)
                 /\ recheck.used = k
                 /\ recheck.order = [i \in 1..Len(ts.premises) |-> i]

\* The emitted step of an elaboration that had to reorder and to flip has
\* been checked.
C6_Witness ==
    /\ pc = "rechecked"
    /\ IsOk(elab.res)
    /\ Len(elab.should_flip) = 3
    /\ Flipped = {1, 3}
    /\ elab.premises[1] # step.premises[1]

\* C7 (shape of the elaborator's output): with no premise of the chain matched
\* on its right side the command is one step: the step's identifier and
\* clause, rule trans, no arguments, the reordered premises.  Otherwise it is a
\* subproof without assignment and variable arguments: one symm step for each
\* flipped premise, in chain order, named <step>.t1, <step>.t2, ..., and last
\* the trans step, with the step's identifier and clause, whose premise list
\* is the reordered list with every flipped slot naming its symm step.
C7_ElaboratorShape ==
    Elaborated_ok =>
        IF Flipped = {}
        THEN elab.command = ProofStep(step.index, step.clause, "trans", elab.premises)
        ELSE LET cs == elab.command.commands
                 n == Cardinality(Flipped)
             IN  /\ elab.command.cmd = "Subproof"
                 /\ elab.command.assignment_args = <<>>
                 /\ elab.command.variable_args = <<>>
                 /\ Len(cs) = n + 1
                 /\ \A i \in Flipped :
                      /\ cs[Rank(i)].cmd = "Step"
                      /\ cs[Rank(i)].rule = "symm"
                      /\ cs[Rank(i)].index = step.index \o ".t" \o ToString(Rank(i))
                      /\ cs[Rank(i)].args = <<>>
                      /\ cs[Rank(i)].premises = <<elab.premises[i]>>
                 /\ cs[n + 1] =
                      ProofStep(step.index, step.clause, "trans",
                                [i \in 1..Len(elab.premises) |->
                                   IF i \in Flipped
                                   THEN Premise(cs[Rank(i)].index, cs[Rank(i)].clause)
                                   ELSE elab.premises[i]])

\* A subproof with two symm steps and a trans step one of whose premises is
\* kept.
C7_Witness ==
    /\ Elaborated_ok
    /\ elab.command.cmd = "Subproof"
    /\ Len(elab.command.commands) = 3
    /\ Flipped = {1, 3}

\* C8 (the symm steps): every symm step of the subproof has exactly one
\* premise, the premise that stood in the slot it replaces, which is a premise
\* of the original step; its clause is one term, interned in the pool: the
\* equality of that premise with its sides exchanged.
C8_SymmSteps ==
    Elaborated_ok =>
        \A i \in Flipped :
            LET c == elab.command.commands[Rank(i)]
            IN  /\ c.rule = "symm"
                /\ Len(c.premises) = 1
                /\ c.premises[1] = elab.premises[i]
                /\ \E j \in 1..Len(step.premises) : c.premises[1] = step.premises[j]
                /\ Len(c.clause) = 1
                /\ c.clause[1] \in Refs(pool)
                /\ pool.heap[c.clause[1]] =
                     MkTerm("Op", "Equals", "",
                            <<elab.premise_equalities[i][2], elab.premise_equalities[i][1]>>,
                            <<>>)
                /\ pool.terms[pool.heap[c.clause[1]]] = c.clause[1]
                /\ elab.premise_equalities[i] = ClauseEq(elab.premises[i].clause)
                /\ pool.sorts_cache[c.clause[1]] = SortBool

\* A symm step for a premise (= x y), x other than y, whose flipped equality
\* the parser had not interned: the elaborator added it to the pool.
C8_Witness ==
    /\ Elaborated_ok
    /\ \E i \in Flipped :
         /\ elab.premise_equalities[i][1] # elab.premise_equalities[i][2]
         /\ elab.command.commands[Rank(i)].clause[1] > step.clause[1]

\* The input positions of the premises the chain did not use.
Unused == (1..Len(Given)) \ {result.order[i] : i \in 1..result.used}

C10_BrokenChainError ==
    (Checked /\ ~IsOk(result.res)) =>
        /\ result.res = BrokenTransitivityChain(
                            Walk(Target[1], result.premises, 1, result.used), Target[2])
        /\ result.res.a \in Refs(pool) \ {Target[2]}
        /\ \A i \in (result.used + 1)..Len(Given) :
              result.res.a \notin {result.premises[i][1], result.premises[i][2]}
        /\ (step.rule = "trans" /\ pc # "checked") => elab.res = result.res

\* A search that fails after it took two premises, at a term that is neither
\* side of the conclusion.
C10_Witness ==
    /\ Checked
    /\ pc = "elaborated"
    /\ ~IsOk(result.res)
    /\ result.used = 2
    /\ result.res.a \notin {Target[1], Target[2]}

(***************************************************************************)
(* Properties of the shape checks of the transitivity rules.               *)
(***************************************************************************)
\* The term of the reference is an equality.
IsEquality(r) ==
    pool.heap[r].kind = "Op" /\ pool.heap[r].op = "Equals" /\ Len(pool.heap[r].args) = 2

\* The term of the reference is a negated equality.
IsNegatedEquality(r) ==
    /\ pool.heap[r].kind = "Op"
    /\ pool.heap[r].op = "Not"
    /\ Len(pool.heap[r].args) = 1
    /\ IsEquality(pool.heap[r].args[1])

\* The positions of the literals of an eq_transitive clause, the last left
\* out, that are not negated equalities.
BadLiterals == {i \in 1..(Len(step.clause) - 1) : ~IsNegatedEquality(step.clause[i])}

\* The positions of the premises of a trans step whose clause is not one
\* equality.
BadPremises ==
    {i \in 1..Len(step.premises) :
        \/ Len(step.premises[i].clause) # 1
        \/ ~IsEquality(step.premises[i].clause[1])}

\* The errors of a clause of the wrong length and of a broken chain.
LengthOrChain ==
    {"WrongLengthOfClause", "WrongLengthOfPremiseClause", "BrokenTransitivityChain"}

\* C11 (shape checks precede the chain search and short-circuit): the result
\* of a rule is the error of the first shape check that fails, and then
\* find_chain has not run.  eq_transitive: a clause shorter than 3
\* (WrongLengthOfClause), then a last literal that is not an equality or a
\* literal before the last that is not a negated equality.  trans: a
\* conclusion that is not a unit clause (WrongLengthOfClause), then a
\* conclusion term that is not an equality, then the first premise whose
\* clause is not one equality: WrongLengthOfPremiseClause with the premise's
\* identifier, the expected length 1 and the actual length if the clause has
\* not exactly one term.  A step that passes the shape checks is searched.
C11_ShapeChecksFirst ==
    (pc = "checked") =>
        IF step.rule = "eq_transitive"
        THEN IF Len(step.clause) < 3
             THEN result = NoSearch(WrongLengthOfClause("3..", Len(step.clause)))
             ELSE IF ~IsEquality(step.clause[Len(step.clause)]) \/ BadLiterals # {}
             THEN ~result.searched /\ ~IsOk(result.res) /\ result.res.kind \notin LengthOrChain
             ELSE result.searched
        ELSE IF Len(step.clause) # 1
             THEN result = NoSearch(WrongLengthOfClause("1", Len(step.clause)))
             ELSE IF ~IsEquality(step.clause[1])
             THEN ~result.searched /\ ~IsOk(result.res) /\ result.res.kind \notin LengthOrChain
             ELSE IF BadPremises # {}
             THEN /\ ~result.searched
                  /\ \E i \in BadPremises :
                        /\ \A j \in BadPremises : i <= j
                        /\ IF Len(step.premises[i].clause) # 1
                           THEN result.res = WrongLengthOfPremiseClause(
                                                 step.premises[i].index, "1",
                                                 Len(step.premises[i].clause))
                           ELSE ~IsOk(result.res) /\ result.res.kind \notin LengthOrChain
             ELSE result.searched

\* A trans step with a well-formed conclusion rejected for its first premise,
\* whose clause is empty, although a later premise is not an equality.
C11_Witness ==
    /\ pc = "checked"
    /\ step.rule = "trans"
    /\ Len(step.clause) = 1
    /\ IsEquality(step.clause[1])
    /\ Len(step.premises) = 2
    /\ step.premises[1].clause = <<>>
    /\ Len(step.premises[2].clause) = 1
    /\ ~IsEquality(step.premises[2].clause[1])
    /\ result.res = WrongLengthOfPremiseClause("h1", "1", 0)
    /\ ~result.searched

(***************************************************************************)
(* Properties of the caches of the term pool.                              *)
(***************************************************************************)
\* The reference is the one the pool stores under the term it points to.
Interned(p, r) ==
    /\ r \in Refs(p)
    /\ p.heap[r] \in DOMAIN p.terms
    /\ p.terms[p.heap[r]] = r

\* C12 (the caches agree with the interned terms): in every state of a pool
\* after new and calls of add, add_all and free_vars, every interned term has
\* an entry in the sort cache, so that sort(r) is defined for every reference
\* the pool handed out; every key of the sort cache and of the free-variable
\* cache is an interned term; and no call overwrites or removes a cached sort.
C12_CachesConsistent ==
    /\ [](/\ \A t \in DOMAIN pool.terms : has_sort(pool, pool.terms[t])
          /\ \A h \in handed : has_sort(pool, h.ref)
          /\ \A r \in DOMAIN pool.sorts_cache : Interned(pool, r)
          /\ \A r \in DOMAIN pool.free_vars_cache : Interned(pool, r))
    /\ [][\A r \in DOMAIN pool.sorts_cache :
             /\ r \in DOMAIN pool'.sorts_cache
             /\ pool'.sorts_cache[r] = pool.sorts_cache[r]]_vars

\* A pool in which free_vars of a let term has interned a variable the caller
\* never handed in, and that variable has its sort.
C12_Witness ==
    /\ pstatus = "ok"
    /\ \E r \in DOMAIN pool.free_vars_cache : pool.heap[r].kind = "Let"
    /\ \E r \in Refs(pool) :
         /\ r > 3
         /\ pool.heap[r].kind = "Var"
         /\ \A h \in handed : h.ref # r
         /\ has_sort(pool, r)

(***************************************************************************)
(* Properties of add and of sort inference.                                *)
(***************************************************************************)
\* The sort the cache holds for a reference.
CachedSort(r) == pool.sorts_cache[r]

\* The sort a sort term stands for.
SortOfSortTerm(r) == MkSort(pool.heap[r].op, pool.heap[r].name, pool.heap[r].args)

\* The term has what compute_sort reads of it: a variable or choice has a sort
\* term that is a sort, Ite has a second argument, Select an array-sorted
\* first argument, Store a first argument, an application a function-sorted
\* head.
Sortable(t) ==
    CASE t.kind = "Var" -> pool.heap[t.args[1]].kind = "Sort"
      [] t.kind = "Choice" -> pool.heap[t.bindings[1][2]].kind = "Sort"
      [] t.kind = "Op" /\ t.op = "Ite" -> Len(t.args) >= 2
      [] t.kind = "Op" /\ t.op = "Select" ->
           Len(t.args) >= 1 /\ CachedSort(t.args[1]).s = "Array"
      [] t.kind = "Op" /\ t.op = "Store" -> Len(t.args) >= 1
      [] t.kind = "App" ->
           CachedSort(t.args[1]).s = "Function" /\ CachedSort(t.args[1]).args # <<>>
      [] OTHER -> TRUE

\* C13, as claimed: add never fails: for every term built from references of
\* the pool, ill-sorted ones included, add completes and returns a reference.
C13_AddNeverFails ==
    (pc = "added") => (pstatus = "ok" /\ \E h \in handed : h.term = work)

\* C13, amended: add completes and returns the reference of the term exactly
\* when compute_sort finds what it reads of the term.  For a variable or a
\* choice whose sort term is not a sort, a Select whose first argument is not
\* array-sorted, an application whose head is not function-sorted, and an Ite,
\* Select or Store that lacks the argument read, add panics, after it has put
\* the term in the term map and before a sort is cached for it.
C13_AddFailsOnIllSorted ==
    (pc = "added") =>
        IF Sortable(work)
        THEN /\ pstatus = "ok"
             /\ handed = {Hand(work, pool.terms[work])}
             /\ has_sort(pool, pool.terms[work])
        ELSE /\ pstatus = "panicked"
             /\ handed = {}
    /\ answers = {}
    /\ iter = NoIter
             /\ work \in DOMAIN pool.terms
             /\ ~has_sort(pool, pool.terms[work])

\* add of (select 1 1.5), whose first argument is no array, has panicked and
\* left the term in the term map.
C13_Witness ==
    /\ pc = "added"
    /\ work = MkTerm("Op", "Select", "", <<6, 7>>, <<>>)
    /\ pstatus = "panicked"
    /\ work \in DOMAIN pool.terms

\* The reference rule for the sort of a term, from the cached sorts of its
\* children.
ReferenceSort(t) ==
    CASE t.kind = "Integer" -> SortInt
      [] t.kind = "Real" -> SortReal
      [] t.kind = "String" -> SortString
      [] t.kind = "Var" -> SortOfSortTerm(t.args[1])
      [] t.kind = "Quant" -> SortBool
      [] t.kind = "Choice" -> SortOfSortTerm(t.bindings[1][2])
      [] t.kind = "Let" -> CachedSort(t.args[1])
      [] t.kind = "Lambda" ->
           MkSort("Function", "",
                  [i \in 1..(Len(t.bindings) + 1) |->
                     IF i <= Len(t.bindings) THEN t.bindings[i][2]
                     ELSE pool.terms[MkTerm("Sort", CachedSort(t.args[1]).s,
                                            CachedSort(t.args[1]).id,
                                            CachedSort(t.args[1]).args, <<>>)]])
      [] t.kind = "App" ->
           SortOfSortTerm(CachedSort(t.args[1]).args[Len(CachedSort(t.args[1]).args)])
      [] t.kind = "Op" /\ t.op = "Ite" -> CachedSort(t.args[2])
      [] t.kind = "Op" /\ t.op \in {"Add", "Sub", "Mult"} ->
           IF \E i \in 1..Len(t.args) : CachedSort(t.args[i]) = SortReal
           THEN SortReal ELSE SortInt
      [] t.kind = "Op" /\ t.op \in {"RealDiv", "ToReal"} -> SortReal
      [] t.kind = "Op" /\ t.op \in {"IntDiv", "Mod", "Abs", "ToInt"} -> SortInt
      [] t.kind = "Op" /\ t.op = "Select" -> SortOfSortTerm(CachedSort(t.args[1]).args[2])
      [] t.kind = "Op" /\ t.op = "Store" -> CachedSort(t.args[1])
      [] t.kind = "Op" /\ t.op \in {"Not", "Implies", "And", "Or", "Xor", "Equals",
                                    "Distinct", "LessThan", "GreaterThan", "LessEq",
                                    "GreaterEq", "IsInt"} -> SortBool

\* C14 (sort inference): for every term add returned a reference for, sort
\* terms left aside, the sort of the reference is the one the reference rule
\* gives for the shape of the term.
C14_SortInference ==
    (pc # "term") =>
        \A h \in handed :
            h.term.kind # "Sort" => sort(pool, h.ref) = ReferenceSort(h.term)

\* (+ 1 1.5), whose second argument is the Real one, has sort Real.
C14_Witness ==
    /\ pc = "added"
    /\ \E h \in handed :
         /\ h.term = MkTerm("Op", "Add", "", <<6, 7>>, <<>>)
         /\ sort(pool, h.ref) = SortReal

(***************************************************************************)
(* Properties of free_vars.                                                *)
(***************************************************************************)
\* The free variables the cache holds for a reference.
CachedFreeVars(r) == pool.free_vars_cache[r]

\* The references of the variable terms of a name and a sort term.
VarRefs(name, st) ==
    {r \in Refs(pool) : pool.heap[r] = MkTerm("Var", "Simple", name, <<st>>, <<>>)}

\* The references of the sort terms of a sort.
SortTermRefs(srt) ==
    {r \in Refs(pool) : pool.heap[r] = MkTerm("Sort", srt.s, srt.id, srt.args, <<>>)}

\* The reference rule for the free variables of the term at r, from the cached
\* free variables of its children.
ReferenceFreeVars(r) ==
    LET t == pool.heap[r]
    IN  CASE t.kind \in {"Quant", "Lambda", "Choice"} ->
               CachedFreeVars(t.args[1])
               \ UNION {VarRefs(t.bindings[i][1], t.bindings[i][2]) : i \in 1..Len(t.bindings)}
          [] t.kind = "Let" ->
               CachedFreeVars(t.args[1])
               \ UNION {UNION {VarRefs(t.bindings[i][1], st) :
                                   st \in SortTermRefs(CachedSort(t.bindings[i][2]))} :
                          i \in 1..Len(t.bindings)}
          [] t.kind \in {"App", "Op"} ->
               UNION {CachedFreeVars(t.args[i]) : i \in 1..Len(t.args)}
          [] t.kind = "Var" /\ t.op = "Simple" -> {r}
          [] OTHER -> {}

\* C15 (free variables): what free_vars returns for a term is, for a
\* quantifier, lambda or choice, the free variables of the body minus exactly
\* the variable terms of the binder's (name, sort) pairs; for a let, those of
\* the body minus the variables (name, sort of the bound value); for an
\* application or operator term the union over its subterms; for a simple
\* variable the variable itself; for other terminals and sort terms nothing.
\* A free variable with a bound name and another sort stays free.
C15_BinderFreeVars ==
    (pstatus = "ok") =>
        \A a \in answers :
            /\ a.set = ReferenceFreeVars(a.ref)
            /\ a.set = CachedFreeVars(a.ref)
            /\ \A v \in a.set : pool.heap[v].kind = "Var" /\ pool.heap[v].op = "Simple"

\* forall x : Bool over (and (not x) (= x y)): x : Bool is bound, x : Int and
\* y : Int stay free.
C15_Witness ==
    /\ pc = "asked"
    /\ work = MkTerm("Quant", "forall", "", <<17>>, << <<"x", 1>> >>)
    /\ \E a \in answers : a.set = {9, 10}
    /\ CachedFreeVars(17) = {8, 9, 10}

\* C16 (free_vars is memoized and idempotent): every set free_vars returned
\* for a reference is the set the cache holds for it, whatever calls of add,
\* add_all and free_vars came after, so that two calls for one reference
\* return the same set; and a call for a reference the cache holds returns
\* that set and changes neither the term map nor a cache.
C16_FreeVarsMemoized ==
    /\ \A a \in answers :
         /\ a.ref \in DOMAIN pool.free_vars_cache
         /\ pool.free_vars_cache[a.ref] = a.set
    /\ \A a1, a2 \in answers : a1.ref = a2.ref => a1.set = a2.set
    /\ \A r \in DOMAIN pool.free_vars_cache :
         free_vars(pool, r) = FvDone(pool, pool.free_vars_cache[r])

\* free_vars of a quantifier was asked for and interned the bound variable,
\* and the caller added a term after that; the cache also holds sets of
\* subterms the caller did not ask for.
C16_Witness ==
    /\ pstatus = "ok"
    /\ \E a \in answers : \E v \in Refs(pool) : \E h \in handed :
         /\ pool.heap[a.ref].kind = "Quant"
         /\ pool.heap[v] = VarTerm(pool.heap[a.ref].bindings[1][1],
                                   pool.heap[a.ref].bindings[1][2])
         /\ \A g \in handed : g.ref # v
         /\ h.ref > v
    /\ \E r \in DOMAIN pool.free_vars_cache : \A a \in answers : a.ref # r

(***************************************************************************)
(* Properties of the boolean constants of the pool.                        *)
(***************************************************************************)
\* The reference a pool stores under a term; 0 if it stores none.
RefOf(p, term) == IF term \in DOMAIN p.terms THEN p.terms[term] ELSE 0

\* The Bool sort term, and the constant of a name: a variable of sort Bool.
BoolSortTerm == MkTerm("Sort", "Bool", "", <<>>, <<>>)

BoolConstantTerm(name) ==
    MkTerm("Var", "Simple", name, <<RefOf(new, BoolSortTerm)>>, <<>>)

\* C17 (the boolean constants): the new pool interns the Bool sort term and
\* the constants true and false, each with cached sort Bool; in every state
\* bool_true(), bool_false() and bool_constant(b) return the references of
\* these terms in the new pool, and add of a term equal to one of them returns
\* that reference and allocates nothing.
C17_BoolConstants ==
    /\ \A t \in {BoolSortTerm, BoolConstantTerm("true"), BoolConstantTerm("false")} :
         /\ RefOf(new, t) # 0
         /\ RefOf(pool, t) = RefOf(new, t)
         /\ pool.heap[RefOf(pool, t)] = t
         /\ has_sort(pool, RefOf(pool, t))
         /\ sort(pool, RefOf(pool, t)) = SortBool
         /\ add(pool, t) = [pool |-> pool, ref |-> RefOf(new, t), ok |-> TRUE]
         /\ \A h \in handed : h.term = t => h.ref = RefOf(new, t)
    /\ bool_true(pool) = RefOf(new, BoolConstantTerm("true"))
    /\ bool_false(pool) = RefOf(new, BoolConstantTerm("false"))
    /\ bool_true(pool) # bool_false(pool)
    /\ bool_constant(pool, TRUE) = bool_true(pool)
    /\ bool_constant(pool, FALSE) = bool_false(pool)

\* A pool grown by other terms to which the caller has added both true and
\* false.
C17_Witness ==
    /\ pstatus = "ok"
    /\ Len(pool.heap) > Len(new.heap) + 1
    /\ \E h \in handed : h.term = BoolConstantTerm("true") /\ h.ref = bool_true(pool)
    /\ \E h \in handed : h.term = BoolConstantTerm("false") /\ h.ref = bool_false(pool)

\* ---------------------------------------------------------------------------
\* The schedule iterator (checker/scheduler/iter.rs)
\* ---------------------------------------------------------------------------

\* the largest number of commands of a proof, subproofs and their bodies counted
MaxCommands == 6

\* the deepest nesting of subproofs in a proof
MaxNesting == 2

\* the largest number of calls of next() after the schedule is exhausted
MaxDrained == 2

\* usize::MAX, the offset of a closing coordinate
usize_MAX == 2147483647

\* A command of the proof tree.  Its index is its position in the tree, the
\* offsets from the root down to it, and stands for its address.
Command(cmd, index, commands) ==
    [cmd |-> cmd, index |-> index, commands |-> commands]

\* ProofCommand::Closing, the one closing marker
Closing == Command("closing", <<>>, <<>>)

\* Option<&ProofCommand>
Some(command) == [some |-> TRUE, command |-> command]

None == [some |-> FALSE, command |-> Closing]

\* The command lists of n commands in all (bodies of subproofs counted) that
\* start at offset o under the command at path, nested at most room deep.  A
\* subproof has at least one command and ends in a step.
RECURSIVE CommandLists(_, _, _, _)
CommandLists(path, o, n, room) ==
    IF n = 0 THEN {<<>>}
    ELSE LET index == path \o <<o>>
             flat == {<<Command(cmd, index, <<>>)>> \o rest :
                        cmd \in {"assume", "step"},
                        rest \in CommandLists(path, o + 1, n - 1, room)}
             nested ==
                 UNION {UNION {{<<Command("subproof", index, inner)>> \o rest :
                                  rest \in CommandLists(path, o + 1, n - 1 - k, room)} :
                               inner \in {b \in CommandLists(index, 0, k, room - 1) :
                                            b[Len(b)].cmd = "step"}} :
                        k \in 1..(n - 1)}
         IN  IF room = 0 THEN flat ELSE flat \cup nested

\* the proofs the iterator is run on
Proofs == UNION {CommandLists(<<>>, 0, n, MaxNesting) : n \in 0..MaxCommands}

\* The schedule of a command list at a depth: the coordinate of each command
\* in proof order, a subproof followed by the schedule of its body and by the
\* closing coordinate of the subproof, whose depth component is the depth of
\* the body (up = 1) or of the subproof command (up = 0).
RECURSIVE Schedule(_, _, _, _)
Schedule(commands, depth, o, up) ==
    IF o >= Len(commands) THEN <<>>
    ELSE LET command == commands[o + 1]
         IN  <<<<depth, o>>>>
             \o (IF command.cmd = "subproof"
                 THEN Schedule(command.commands, depth + 1, 0, up)
                        \o <<<<depth + up, usize_MAX>>>>
                 ELSE <<>>)
             \o Schedule(commands, depth, o + 1, up)

\* ScheduleIter::new(proof_commands, steps)
ScheduleIter_new(proof_commands, steps) ==
    [proof |-> proof_commands, proof_stack |-> <<proof_commands>>, steps |-> steps,
     step_id |-> 0, returned |-> <<>>, status |-> "ok"]

\* self.depth()
depth(self) == Len(self.proof_stack) - 1

\* self.is_in_subproof()
is_in_subproof(self) == depth(self) > 0

\* self.current_subproof()
current_subproof(self) ==
    IF is_in_subproof(self)
    THEN [some |-> TRUE, commands |-> self.proof_stack[Len(self.proof_stack)]]
    ELSE [some |-> FALSE, commands |-> <<>>]

\* self.is_end_step(): ok is FALSE when the call panics on steps[step_id - 1]
is_end_step(self) ==
    IF ~is_in_subproof(self) THEN [ok |-> TRUE, val |-> FALSE]
    ELSE IF self.step_id - 1 < 0 \/ self.step_id - 1 >= Len(self.steps)
    THEN [ok |-> FALSE, val |-> FALSE]
    ELSE [ok |-> TRUE,
          val |-> self.steps[self.step_id][2]
                    = Len(self.proof_stack[Len(self.proof_stack)]) - 1]

\* the lookup made in the innermost open frame, whatever the depth
get_premise_in_top(self, d, index) ==
    IF index < Len(self.proof_stack[Len(self.proof_stack)])
    THEN [ok |-> TRUE, command |-> self.proof_stack[Len(self.proof_stack)][index + 1]]
    ELSE [ok |-> FALSE, command |-> Closing]

\* self.get_premise((depth, index)): ok is FALSE when the lookup panics
get_premise(self, d, index) ==
    IF d < Len(self.proof_stack) /\ index < Len(self.proof_stack[d + 1])
    THEN [ok |-> TRUE, command |-> self.proof_stack[d + 1][index + 1]]
    ELSE [ok |-> FALSE, command |-> Closing]

\* the pop loop left out: the stack is kept as it is
pop_frames_never(proof_stack, d) == [ok |-> TRUE, proof_stack |-> proof_stack]

\* while cur_step.0 != self.proof_stack.len() - 1 { self.proof_stack.pop(); }
\* On an empty stack len() - 1 underflows: ok is FALSE.
RECURSIVE pop_frames(_, _)
pop_frames(proof_stack, d) ==
    IF Len(proof_stack) = 0 THEN [ok |-> FALSE, proof_stack |-> proof_stack]
    ELSE IF d = Len(proof_stack) - 1 THEN [ok |-> TRUE, proof_stack |-> proof_stack]
    ELSE pop_frames(SubSeq(proof_stack, 1, Len(proof_stack) - 1), d)

\* A slip: the commands of every fetched command are pushed as a frame.
push_frame_always(proof_stack, command) == Append(proof_stack, command.commands)

\* The frame pushed for a command: the body of a subproof, nothing otherwise.
push_frame(proof_stack, command) ==
    IF command.cmd = "subproof" THEN Append(proof_stack, command.commands)
    ELSE proof_stack

\* self.next(): the iterator after the call, the item in returned.  A failing
\* call leaves status "failed"; what the failure is depends on the build.
next(self) ==
    IF self.step_id < Len(self.steps)
    THEN LET step_id == self.step_id + 1
             cur_step == self.steps[step_id]
             popped == pop_frames(self.proof_stack, cur_step[1])
             top == popped.proof_stack[Len(popped.proof_stack)]
         IN  IF cur_step[2] = usize_MAX
             THEN [self EXCEPT !.step_id = step_id,
                               !.returned = Append(@, Some(Closing))]
             ELSE IF ~popped.ok
             THEN [self EXCEPT !.step_id = step_id, !.proof_stack = <<>>,
                               !.status = "failed"]
             ELSE IF cur_step[2] >= Len(top)
             THEN [self EXCEPT !.step_id = step_id,
                               !.proof_stack = popped.proof_stack,
                               !.status = "failed"]
             ELSE [self EXCEPT !.step_id = step_id,
                               !.proof_stack =
                                   push_frame(popped.proof_stack, top[cur_step[2] + 1]),
                               !.returned = Append(@, Some(top[cur_step[2] + 1]))]
    ELSE [self EXCEPT !.returned = Append(@, None)]

InitIter ==
    /\ pool = new
    /\ handed = {}
    /\ answers = {}
    /\ pstatus = "ok"
    /\ work = 0
    /\ step = NoStep
    /\ pc = "iter"
    /\ result = NoResult
    /\ elab = NoElab
    /\ recheck = NoResult
    /\ \E proof_commands \in Proofs : \E up \in {0, 1} :
           iter = ScheduleIter_new(proof_commands, Schedule(proof_commands, 0, 0, up))

\* iter.next(), called by the driver until it has returned None MaxDrained
\* times.  An underflow of len() - 1 panics in a debug build and wraps in a
\* release build, where the loop then never ends.
IterNext ==
    /\ iter.status = "ok"
    /\ Len(iter.returned) < Len(iter.steps) + MaxDrained
    /\ \E n \in {next(iter)} :
           \/ /\ n.status = "ok"
              /\ iter' = n
           \/ /\ n.status = "failed"
              /\ \E outcome \in {"panicked", "hung"} :
                     iter' = [n EXCEPT !.status = outcome]
    /\ UNCHANGED <<pool, poolVars, proofVars>>

NextIter == IterNext

SpecIter == InitIter /\ [][NextIter]_vars

\* the commands of a command list in proof order, a subproof before its body
RECURSIVE Preorder(_)
Preorder(commands) ==
    IF commands = <<>> THEN <<>>
    ELSE <<Head(commands)>> \o Preorder(Head(commands).commands)
           \o Preorder(Tail(commands))

\* the command at a position of the proof tree
RECURSIVE CommandAt(_, _)
CommandAt(commands, index) ==
    IF Len(index) = 1 THEN commands[index[1] + 1]
    ELSE CommandAt(commands[index[1] + 1].commands, Tail(index))

IsReal(item) == item.some /\ item.command.cmd # "closing"

\* the real commands next() returned, in the order of the calls
RealReturned ==
    LET items == SelectSeq(iter.returned, IsReal)
    IN  [k \in 1..Len(items) |-> items[k].command]

\* C18 (coverage and order): on a proof with its schedule no call of next()
\* fails; the k-th call returns the command that lies in the proof at the k-th
\* coordinate of the schedule, at that depth and offset, and the Closing marker
\* for a closing coordinate; the real commands returned are the commands of
\* the proof in proof order, each once, all of them when the schedule is
\* exhausted; every later call returns None, and a call on the exhausted
\* schedule changes neither the frame stack nor the position.
C18_CoverageAndOrder ==
    /\ [](/\ iter.status = "ok"
          /\ iter.step_id = IF Len(iter.returned) < Len(iter.steps)
                            THEN Len(iter.returned) ELSE Len(iter.steps)
          /\ \A k \in 1..Len(iter.returned) :
                 LET item == iter.returned[k]
                 IN  IF k > Len(iter.steps) THEN item = None
                     ELSE IF iter.steps[k][2] = usize_MAX THEN item = Some(Closing)
                     ELSE /\ IsReal(item)
                          /\ Len(item.command.index) = iter.steps[k][1] + 1
                          /\ item.command.index[Len(item.command.index)]
                               = iter.steps[k][2]
                          /\ item.command = CommandAt(iter.proof, item.command.index)
          /\ \E all \in {Preorder(iter.proof)} :
                 /\ Len(RealReturned) <= Len(all)
                 /\ RealReturned = SubSeq(all, 1, Len(RealReturned))
                 /\ iter.step_id = Len(iter.steps) => RealReturned = all)
    /\ [][iter.step_id = Len(iter.steps)
            => /\ iter'.proof_stack = iter.proof_stack
               /\ iter'.step_id = iter.step_id
               /\ iter'.returned = Append(iter.returned, None)]_vars

\* A proof with a subproof inside a subproof, all of whose commands were
\* returned, after which next() returned None twice.
C18_Witness ==
    /\ iter.status = "ok"
    /\ Len(iter.returned) = Len(iter.steps) + 2
    /\ iter.returned[Len(iter.returned)] = None
    /\ \E k \in 1..Len(iter.returned) : Len(iter.returned[k].command.index) = 3
    /\ Len(RealReturned) = Len(Preorder(iter.proof))
    /\ Len(iter.proof) > 1

\* the last item next() returned that was a command or the Closing marker
LastYielded ==
    LET items == SelectSeq(iter.returned, LAMBDA item : item.some)
    IN  IF items = <<>> THEN None ELSE items[Len(items)]

\* the command list a command of the proof lies in
FrameOf(command) ==
    IF Len(command.index) = 1 THEN iter.proof
    ELSE CommandAt(iter.proof, SubSeq(command.index, 1, Len(command.index) - 1)).commands

\* the command is the last one of a subproof
EndsSubproof(command) ==
    /\ Len(command.index) > 1
    /\ command.index[Len(command.index)] = Len(FrameOf(command)) - 1

\* C19 (is_end_step precision): is_end_step() never fails, also before the
\* first next(), and is true exactly when the last command next() returned
\* was the last command of the innermost open subproof: it is false before any
\* command was returned, after a command of the root proof, after a Subproof
\* command (which has just opened a new frame) and after the Closing marker.
C19_EndStepPrecise ==
    /\ is_end_step(iter).ok
    /\ is_end_step(iter).val
         = (/\ LastYielded.some
            /\ LastYielded.command.cmd \in {"assume", "step"}
            /\ EndsSubproof(LastYielded.command))

\* the positions in the schedule of the real commands returned so far
RealPositions == {k \in 1..iter.step_id : iter.steps[k][2] # usize_MAX}

\* the depth component of the coordinate of the last real command returned,
\* 0 when none was returned
LastRealDepth ==
    IF RealPositions = {} THEN 0
    ELSE iter.steps[CHOOSE k \in RealPositions : \A j \in RealPositions : j <= k][1]

\* C20 (depth): depth() is the depth component of the schedule coordinate of
\* the last real command next() returned, whatever kind of command it is, a
\* Subproof command included; it is 0 before any command is returned and after
\* a command of the root proof; is_in_subproof() is true exactly when that
\* depth is greater than 0.
C20_DepthOfLastCommand ==
    /\ depth(iter) = LastRealDepth
    /\ is_in_subproof(iter) = (LastRealDepth > 0)

\* the real command next() returned last, if any
CurrentCommand ==
    IF RealReturned = <<>> THEN None ELSE Some(RealReturned[Len(RealReturned)])

\* the frame of nesting level d on the path from the root to a command
FrameOnPath(command, d) ==
    IF d = 0 THEN iter.proof
    ELSE CommandAt(iter.proof, SubSeq(command.index, 1, d)).commands

\* the frame the k-th coordinate refers to is still on the stack
FrameOpen(k) ==
    /\ iter.steps[k][1] < Len(iter.proof_stack)
    /\ iter.proof_stack[iter.steps[k][1] + 1] = FrameOf(iter.returned[k].command)

\* C21 (open frames and get_premise): the frame stack is never empty, its
\* bottom entry is the root command list, and every entry above the bottom is
\* the body of a Subproof command of the entry below it; for the coordinate
\* (d, o) of every real command already returned whose frame is still on the
\* stack, get_premise((d, o)) succeeds and returns that command, which is the
\* command at offset o of the frame of level d on the path to the command
\* returned last.
C21_OpenFrames ==
    /\ iter.status = "ok"
    /\ Len(iter.proof_stack) >= 1
    /\ iter.proof_stack[1] = iter.proof
    /\ \A d \in 1..(Len(iter.proof_stack) - 1) :
           \E o \in 1..Len(iter.proof_stack[d]) :
               /\ iter.proof_stack[d][o].cmd = "subproof"
               /\ iter.proof_stack[d][o].commands = iter.proof_stack[d + 1]
    /\ \A k \in RealPositions :
           FrameOpen(k) =>
               /\ get_premise(iter, iter.steps[k][1], iter.steps[k][2])
                    = [ok |-> TRUE, command |-> iter.returned[k].command]
               /\ iter.steps[k][1] < Len(CurrentCommand.command.index)
               /\ iter.returned[k].command
                    = FrameOnPath(CurrentCommand.command,
                                  iter.steps[k][1])[iter.steps[k][2] + 1]

\* Two subproofs are open, one inside the other; the first command of the
\* root proof, not a subproof, and a command of the inner body were returned.
C21_Witness ==
    /\ iter.status = "ok"
    /\ Len(iter.proof_stack) = 3
    /\ \E k \in RealPositions :
           /\ FrameOpen(k)
           /\ iter.steps[k] = <<0, 0>>
           /\ iter.returned[k].command.cmd # "subproof"
    /\ \E k \in RealPositions : FrameOpen(k) /\ iter.steps[k][1] = 2

\* every term, reference and cache entry of pool p is in pool q as it was
PoolExtends(p, q) ==
    /\ Len(q.heap) >= Len(p.heap)
    /\ SubSeq(q.heap, 1, Len(p.heap)) = p.heap
    /\ \A t \in DOMAIN p.terms : t \in DOMAIN q.terms /\ q.terms[t] = p.terms[t]
    /\ \A r \in DOMAIN p.sorts_cache :
           r \in DOMAIN q.sorts_cache /\ q.sorts_cache[r] = p.sorts_cache[r]
    /\ \A r \in DOMAIN p.free_vars_cache :
           r \in DOMAIN q.free_vars_cache /\ q.free_vars_cache[r] = p.free_vars_cache[r]
    /\ q.bool_true = p.bool_true
    /\ q.bool_false = p.bool_false

\* C22 (the elaborator leaves its input alone): across a call of
\* reconstruct_trans the step, with its conclusion clause and its premise
\* list, is unchanged; a call that returns an error returns no command and a
\* call that succeeds returns one; the pool after the call holds every term of
\* the pool before it under the same reference and with the same cache
\* entries, and may hold more.
C22_InputUntouched ==
    [][pc = "checked" /\ pc' = "elaborated"
         => /\ step' = step
            /\ IsOk(elab'.res) <=> elab'.command # NoCommand
            /\ PoolExtends(pool, pool')
            /\ IsOk(elab'.res) /\ elab'.command.cmd = "Step" => pool' = pool]_vars

\* The elaborator reordered the premises, flipped one and emitted a subproof.
C22_Witness ==
    /\ pc = "elaborated"
    /\ IsOk(elab.res)
    /\ elab.command.cmd = "Subproof"
    /\ elab.premises # step.premises
    /\ emitted_trans(elab.command).premises # elab.premises

\* the item the last call of next() returned, None before the first call
LastReturned ==
    IF iter.returned = <<>> THEN None ELSE iter.returned[Len(iter.returned)]

\* C23 (top frame): after every next() that returned a real command, a
\* Subproof command as well as a step or an assume, the top of the frame stack
\* is the command list the returned command belongs to.
C23_TopIsFrameOfCommand ==
    IsReal(LastReturned)
        => iter.proof_stack[Len(iter.proof_stack)] = FrameOf(LastReturned.command)

\* C24 (closing coordinates): a call of next() on a coordinate with offset
\* usize::MAX returns the Closing marker, advances the position by one and
\* leaves the frame stack as it is, whatever the depth of the coordinate; a
\* call on a real coordinate (d, o) keeps the frames of the levels 0 to d,
\* drops the frames above them, returns the command at offset o of the frame
\* of level d, and pushes a frame, the body of that command, exactly when the
\* command is a Subproof.
C24_ClosingKeepsStack ==
    [][iter.status = "ok" /\ iter.step_id < Len(iter.steps)
         => LET cur_step == iter.steps[iter.step_id + 1]
                kept == SubSeq(iter.proof_stack, 1, cur_step[1] + 1)
            IN  /\ iter'.step_id = iter.step_id + 1
                /\ iter'.status = "ok"
                /\ iter'.steps = iter.steps
                /\ Len(iter'.returned) = Len(iter.returned) + 1
                /\ IF cur_step[2] = usize_MAX
                   THEN /\ LastReturned' = Some(Closing)
                        /\ iter'.proof_stack = iter.proof_stack
                   ELSE /\ cur_step[1] < Len(iter.proof_stack)
                        /\ LastReturned' = Some(kept[Len(kept)][cur_step[2] + 1])
                        /\ iter'.proof_stack
                             = IF LastReturned'.command.cmd = "subproof"
                               THEN Append(kept, LastReturned'.command.commands)
                               ELSE kept]_vars

\* The Closing marker of a subproof inside a subproof was returned with both
\* frames on the stack, and the next call, on a real coordinate, dropped the
\* frame of the closed subproof only.
C24_Witness ==
    /\ iter.status = "ok"
    /\ iter.step_id >= 2
    /\ iter.returned[iter.step_id - 1] = Some(Closing)
    /\ IsReal(iter.returned[iter.step_id])
    /\ iter.steps[iter.step_id - 1][1] \in {1, 2}
    /\ iter.steps[iter.step_id][1] = 1
    /\ Len(iter.proof_stack) = 2

\* the target of the elaborated step: the two sides of its conclusion
ElabTarget == match_eq(pool, step.clause[1]).eq

\* The left side of the target after i links of a sequence of equalities: each
\* link replaces it by the other side of the equality.
RECURSIVE LhsAfter(_, _, _)
LhsAfter(target, eqs, i) ==
    IF i = 0 THEN target[1]
    ELSE Only({ IF eqs[i][1] = lhs THEN eqs[i][2] ELSE eqs[i][1]
                : lhs \in {LhsAfter(target, eqs, i - 1)} })

\* the elaborator ran its chain search on the step
ElabSearched ==
    /\ pc \in {"elaborated", "rechecked"}
    /\ elab.res.kind \in {"Ok", "BrokenTransitivityChain"}

\* C25 (flip vector): when reconstruct_chain returns, should_flip has one
\* entry for each link the search found, the first entries of the reordered
\* sequence; entry i is true iff the i-th equality of the reordered sequence
\* has the left side of the target of its level on its right side only, so an
\* equality (= x x) is recorded as not flipped; on success the links lead
\* from the left to the right side of the conclusion and the search stopped at
\* the first link that reached it, so that premises the chain does not use
\* have no entry; a level that finds no premise adds no entry.
C25_FlipVector ==
    ElabSearched =>
        LET eqs == elab.premise_equalities
            n == Len(elab.should_flip)
        IN  /\ n <= Len(eqs)
            /\ \A i \in 1..n :
                   \E lhs \in {LhsAfter(ElabTarget, eqs, i - 1)} :
                       /\ lhs # ElabTarget[2]
                       /\ eqs[i][1] = lhs \/ eqs[i][2] = lhs
                       /\ elab.should_flip[i] = (eqs[i][1] # lhs)
            /\ \E lhs \in {LhsAfter(ElabTarget, eqs, n)} :
                   IF IsOk(elab.res) THEN lhs = ElabTarget[2]
                   ELSE /\ lhs # ElabTarget[2]
                        /\ \A i \in (n + 1)..Len(eqs) : eqs[i][1] # lhs /\ eqs[i][2] # lhs

\* A chain of two links, the first through an equality (= x x), the second
\* matched on its right side, with a premise left over.
C25_Witness ==
    /\ ElabSearched
    /\ IsOk(elab.res)
    /\ elab.should_flip = <<FALSE, TRUE>>
    /\ elab.premise_equalities[1][1] = elab.premise_equalities[1][2]
    /\ Len(elab.premise_equalities) = 3

\* the positions from lo on of a sequence of equalities that have x on a side
Matching(pairs, x, lo) == {j \in lo..Len(pairs) : x \in {pairs[j][1], pairs[j][2]}}

\* The search as the tie-break rule describes it, level by level from level
\* lo: at is the arrangement of the input positions before the level.  The
\* lowest matching position of the current arrangement is exchanged with
\* position lo, and the other side of its equality is the next left side
\* (the same side whichever side is tested first).
RECURSIVE TieBreak(_, _, _, _, _)
TieBreak(lhs, rhs, pairs, at, lo) ==
    IF lhs = rhs THEN [ok |-> TRUE, at |-> at, used |-> lo - 1]
    ELSE Only({
           IF hits = {} THEN [ok |-> FALSE, at |-> at, used |-> lo - 1]
           ELSE Only({
                  TieBreak(IF pairs[at[j]][1] = lhs THEN pairs[at[j]][2]
                           ELSE pairs[at[j]][1],
                           rhs, pairs,
                           [k \in 1..Len(at) |-> IF k = lo THEN at[j]
                                                 ELSE IF k = j THEN at[lo] ELSE at[k]],
                           lo + 1)
                  : j \in {CHOOSE j \in hits : \A i \in hits : j <= i} })
           : hits \in {{j \in lo..Len(at) : lhs \in {pairs[at[j]][1], pairs[at[j]][2]}}} })

\* C26 (tie-break): the verdict and the final arrangement of the premises are
\* those of the search that, at each level, takes the premise of lowest index
\* in the current, partially permuted sequence that has a side identical to
\* the current left side and exchanges it with the head of the remaining
\* sequence; the result is a function of the target and the input sequence.
C26_TieBreak ==
    Checked =>
        \E t \in {TieBreak(Target[1], Target[2], Given,
                           [i \in 1..Len(Given) |-> i], 1)} :
            /\ IsOk(result.res) = t.ok
            /\ result.order = t.at
            /\ result.used = t.used
            /\ result.premises = [i \in 1..Len(Given) |-> Given[t.at[i]]]
            /\ ~t.ok => result.res = chain_error(<<LhsAfter(Target, result.premises, t.used),
                                                    Target[2]>>)

\* A step whose second and third premise both have the left side of the
\* conclusion on a side while the first has not: the second is taken.
C26_Witness ==
    /\ Checked
    /\ Len(Given) = 3
    /\ Matching(Given, Target[1], 1) = {2, 3}
    /\ Target[1] # Target[2]
    /\ result.order[1] = 2
    /\ result.used >= 2

\* the two sequences hold the same entries, each as many times
SameMultiset(seq1, seq2) ==
    /\ Len(seq1) = Len(seq2)
    /\ \A i \in 1..Len(seq1) :
           Cardinality({k \in 1..Len(seq1) : seq1[k] = seq1[i]})
             = Cardinality({k \in 1..Len(seq2) : seq2[k] = seq1[i]})

\* C27 (permutation and alignment): the sequence find_chain leaves, on
\* success and on failure alike, holds the equalities of the input, each as
\* many times as the input, and so do the equality list and the premise list
\* reconstruct_chain leaves; in these two lists the i-th equality is the
\* equality of the clause of the i-th premise, for every i.
C27_PermutationAligned ==
    /\ Checked => SameMultiset(result.premises, Given)
    /\ ElabSearched =>
           /\ SameMultiset(elab.premise_equalities, Given)
           /\ SameMultiset(elab.premises, step.premises)
           /\ Len(elab.premise_equalities) = Len(elab.premises)
           /\ \A i \in 1..Len(elab.premises) :
                  /\ IsOk(get_premise_term(elab.premises[i]).res)
                  /\ elab.premise_equalities[i]
                       = match_eq(pool, get_premise_term(elab.premises[i]).term).eq

\* A search that exchanged premises at two levels and then failed, on a list
\* in which one premise occurs twice.
C27_Witness ==
    /\ ElabSearched
    /\ ~IsOk(elab.res)
    /\ Len(elab.should_flip) = 2
    /\ Len(elab.premises) = 3
    /\ \A i \in 1..3 : elab.premises[i] # step.premises[i]
    /\ \E i, j \in 1..3 : i # j /\ Given[i] = Given[j]

\* trans and then reconstruct_trans have returned on a trans step
BothRan == pc \in {"elaborated", "rechecked"} /\ step.rule = "trans"

\* C28 (checker and elaborator agree): on every trans step, whatever the
\* shape of its clause and of its premises, reconstruct_trans returns a
\* command iff trans returns Ok, and when they fail they return the same
\* error; both run their chain search or neither does, and the two searches
\* leave the equalities in the same arrangement after the same number of
\* links.
C28_CheckerElaboratorAgree ==
    BothRan =>
        /\ (elab.command # NoCommand) <=> IsOk(result.res)
        /\ IsOk(elab.res) <=> IsOk(result.res)
        /\ ~IsOk(result.res) => elab.res = result.res
        /\ result.searched <=> elab.res.kind \in {"Ok", "BrokenTransitivityChain"}
        /\ result.searched =>
               /\ elab.premise_equalities = result.premises
               /\ Len(elab.should_flip) = result.used

\* Both accept a step after exchanging its two premises, one of which the
\* elaborator flips in a subproof.
C28_Witness ==
    /\ BothRan
    /\ IsOk(result.res)
    /\ elab.command.cmd = "Subproof"
    /\ result.order = <<2, 1>>
    /\ elab.premise_equalities = result.premises
    /\ elab.should_flip = <<FALSE, TRUE>>

====
